---- MODULE Spec2Model ----
(***************************************************************************)
(* Streaming chat orchestration of Arch-LLM (src/src/main.rs): the         *)
(* send/stop control, the per-turn request task, the per-turn receiver     *)
(* loop on the UI thread, the history handlers and the background jobs.    *)
(*                                                                         *)
(* Every handler that runs on the single-threaded UI context is one        *)
(* action.  A tokio task is cut at its suspension points (its awaits); a   *)
(* block that holds the session mutex has no await inside and is part of   *)
(* one action.                                                             *)
(***************************************************************************)
EXTENDS Integers, Sequences, FiniteSets, TLC

\* ------------------------------------------------------------------ bounds
\* sends accepted in one run of Spec
MaxTurns == 2
\* fragments one stream yields before it ends (Spec, SpecRace)
MaxChunks == 2
\* sends accepted in one run of SpecRace
RaceTurns == 3
\* sends accepted in one run of SpecConv, fragments of one of its streams
ConvTurns == 2
ConvChunks == 1
\* sends accepted in one run of SpecAll, fragments of one of its streams
AllTurns == 1
AllChunks == 1
\* sends accepted in one run of SpecStream, fragments of one of its streams
StreamTurns == 1
StreamChunks == 2
\* sends accepted in one run of SpecPersist, fragments of one of its streams
PersistTurns == 2
PersistChunks == 1
\* sends accepted in one run of SpecMem
MemTurns == 1
\* sends accepted in one run of SpecJobs
JobsTurns == 2
\* sends accepted in one run of SpecTitle
TitleTurns == 2
\* sends accepted in one run of SpecClean, length of a title response
CleanTurns == 1
MaxResLen == 2

\* profiles in the settings at one time
MaxProfiles == 1
\* ids drawn for profiles in one run
MaxProfileIds == 1

\* segments of an event stream
MaxSegments == 2

\* sends of one run of SpecAgents
AgentTurns == 1

\* ------------------------------------------------------- program constants
\* title: text_c.chars().take(20)
TitleLen == 20
\* is_first_message = s.messages.len() <= 3
FirstExchangeLen == 3

None == 0

\* box-drawing characters in the line of Event::Rule
RuleLen == 19

\* ------------------------------------------------------------------ inputs
\* contents of the text buffer when Return / the button is pressed
Texts == { <<>>, <<" ">>, <<"h", "i">> }
\* titles typed into the rename entry
RenameTitles == { <<>>, <<"r">> }
\* content of the model's answer to the title request
TitleResponses == { <<" ">>, <<"T">> }
\* content of the model's answer to the title request in SpecClean: every
\* string of at most MaxResLen characters over TitleChars
TitleChars == { " ", "\"", ".", "T" }
TitleInputs == UNION { [1..n -> TitleChars] : n \in 0..MaxResLen }
\* content of the model's answer to the memory request
MemoryResponses == { <<" ">>, <<"f">> }
\* texts of the input buffer in SpecPersist: one shorter than a title and one
\* of TitleLen + 1 characters
LongText == [i \in 1..(TitleLen + 1) |-> IF i = TitleLen + 1 THEN "z" ELSE "a"]
PersistTexts == { <<"h", "i">>, LongText }

\* content of the model's answer to the memory request in SpecMem
MemInputs == { <<" ">>, <<" ", "g">> }

\* content of the model's answer to the memory request in SpecJobs
JobsInputs == { <<"f">>, <<"g">> }

\* values AgentSwitch can select
AgentIdxs == {0, 1}
\* names typed into the profile form
ProfileNames == { "New Profile", "Ann" }

\* --------------------------------------------------------------- strings
IsSpace(c) == c \in { " ", "\n", "\t" }

RECURSIVE TrimStart(_)
TrimStart(s) == IF s # <<>> /\ IsSpace(Head(s)) THEN TrimStart(Tail(s)) ELSE s

RECURSIVE TrimEnd(_)
TrimEnd(s) ==
    IF s # <<>> /\ IsSpace(s[Len(s)]) THEN TrimEnd(SubSeq(s, 1, Len(s) - 1)) ELSE s

\* str::trim
Trim(s) == TrimEnd(TrimStart(s))

RECURSIVE TrimStartMatches(_, _)
TrimStartMatches(s, c) ==
    IF s # <<>> /\ Head(s) = c THEN TrimStartMatches(Tail(s), c) ELSE s

RECURSIVE TrimEndMatches(_, _)
TrimEndMatches(s, c) ==
    IF s # <<>> /\ s[Len(s)] = c
    THEN TrimEndMatches(SubSeq(s, 1, Len(s) - 1), c) ELSE s

\* str::trim_matches(char): strips every leading and trailing occurrence
TrimMatches(s, c) == TrimEndMatches(TrimStartMatches(s, c), c)

\* (variant: the text is taken whole)
Take_Whole(s, n) == s

\* chars().take(n).collect()
Take(s, n) == IF Len(s) <= n THEN s ELSE SubSeq(s, 1, n)

\* (variant: is_empty() without trim())
IsEmptyAfterTrim_NoTrim(text) == text = <<>>

\* text.trim().is_empty()
IsEmptyAfterTrim(text) == Trim(text) = <<>>

\* res.message.content.trim().trim_matches('"').trim_matches('.')
CleanTitle(res) == TrimMatches(TrimMatches(Trim(res), "\""), ".")

\* -------------------------------------------------------------- messages
\* `turn' is an auxiliary tag: the send that produced the message
SystemMsg(prompt, t) == [role |-> "System", content |-> prompt, turn |-> t]
UserMsg(text, t) == [role |-> "User", content |-> text, turn |-> t]
AssistantMsg(full, t) == [role |-> "Assistant", content |-> full, turn |-> t]

ChunkEv(c) == [type |-> "Chunk", data |-> c]
DoneEv(full) == [type |-> "Done", data |-> full]
ErrorEv == [type |-> "Error", data |-> <<>>]
RefreshEv == [type |-> "RefreshHistory", data |-> <<>>]

VARIABLES
    send_btn,           \* label of the send/stop control: "Send" | "Stop"
    messages,           \* AppState.messages, the Conversation
    history,            \* AppState.history
    history_file,       \* history.json: [present, content]
    history_list,       \* rows of the history side bar (snapshot at refresh)
    current_task,       \* AppState.current_task: None or the turn of the task
    current_agent_idx,  \* AppState.current_agent_idx
    agents,             \* AppState.settings.agents
    profiles,           \* AppState.settings.profiles
    active_profile,     \* AppState.settings.active_profile: <<>> or <<name>>
    settings_file,      \* settings.json: [present, content]
    selected_profile_idx, \* profile selected for editing: None or 1-based index
    memory,             \* memory file of each profile id: [present, content]
    task,               \* request task of each turn
    chan,               \* async_channel of each turn (events in flight)
    receiver,           \* receiver loop of each turn
    title_job,          \* title job of each turn
    memory_job,         \* memory job of each turn
    uuid,               \* number of ids drawn from glib::uuid_string_random
    stopped,            \* auxiliary: turns whose handle the STOP logic aborted
    last_press,         \* auxiliary: outcome of the last handle_send_or_stop
    scenario,           \* auxiliary: the management handlers a run of SpecAll
                        \* exercises, "history" or "profiles"
    parser,             \* the events pulldown_cmark yields for the markdown
                        \* text handed to the renderers
    blocks,             \* result of parse_markdown: <<>> or <<blocks>>
    pango_markup        \* result of markdown_to_pango: <<>> or <<string>>

vars == << send_btn, messages, history, history_file, history_list,
           current_task, current_agent_idx, agents, profiles, active_profile,
           settings_file, selected_profile_idx, memory, task, chan, receiver, title_job, memory_job, uuid,
           stopped, last_press, scenario, parser, blocks, pango_markup >>

Turns == 1..Len(task)


\* -------------------------------------------------------------- rendering
\* events of pulldown_cmark (Options::ENABLE_STRIKETHROUGH): Start and End
\* carry a tag, a fenced code block its language, Text / Code / Html their
\* text
StartEv(tag) == [kind |-> "Start", tag |-> tag, text |-> <<>>]
StartFenced(lang) == [kind |-> "Start", tag |-> "CodeBlock", text |-> lang]
EndEv(tag) == [kind |-> "End", tag |-> tag, text |-> <<>>]
TextEv(text) == [kind |-> "Text", tag |-> "", text |-> text]
CodeEv(code) == [kind |-> "Code", tag |-> "", text |-> code]
HtmlEv(html) == [kind |-> "Html", tag |-> "", text |-> html]
SoftBreakEv == [kind |-> "SoftBreak", tag |-> "", text |-> <<>>]
RuleEv == [kind |-> "Rule", tag |-> "", text |-> <<>>]

\* the tag of the End event that closes a Start event
EndOf(tag) == IF tag \in { "H1", "H2", "H3" } THEN "Heading" ELSE tag

\* glib::markup_escape_text, character by character
EscapeChar(c) ==
    CASE c = "&" -> << "&", "a", "m", "p", ";" >>
      [] c = "<" -> << "&", "l", "t", ";" >>
      [] c = ">" -> << "&", "g", "t", ";" >>
      [] c = "'" -> << "&", "#", "3", "9", ";" >>
      [] c = "\"" -> << "&", "q", "u", "o", "t", ";" >>
      [] OTHER -> << c >>

RECURSIVE markup_escape_text(_)
markup_escape_text(text) ==
    IF text = <<>> THEN <<>>
    ELSE EscapeChar(Head(text)) \o markup_escape_text(Tail(text))

\* format!("\n<span font_size=\"{}\" weight=\"bold\">", size)
SpanOpen(size) ==
    << "\n", "<", "s", "p", "a", "n", " ", "f", "o", "n", "t", "_", "s", "i",
       "z", "e", "=", "\"" >> \o size \o
    << "\"", " ", "w", "e", "i", "g", "h", "t", "=", "\"", "b", "o", "l", "d",
       "\"", ">" >>

HeadingSize(tag) ==
    CASE tag = "H1" -> << "x", "x", "-", "l", "a", "r", "g", "e" >>
      [] tag = "H2" -> << "x", "-", "l", "a", "r", "g", "e" >>
      [] OTHER -> << "l", "a", "r", "g", "e" >>

\* what Event::Start(tag) pushes, for the tags both renderers treat alike
\* (a character outside ASCII is written as its code point)
StartMarkup(tag) ==
    CASE tag = "Strong" -> << "<", "b", ">" >>
      [] tag = "Emphasis" -> << "<", "i", ">" >>
      [] tag = "Strikethrough" -> << "<", "s", ">" >>
      [] tag = "BlockQuote" ->
             << "<", "b", "l", "o", "c", "k", "q", "u", "o", "t", "e", ">" >>
      [] tag \in { "H1", "H2", "H3" } -> SpanOpen(HeadingSize(tag))
      [] tag = "Link" -> << "<", "u", ">" >>
      [] tag = "Item" -> << " ", " ", "U+2022", " " >>
      [] OTHER -> <<>>

\* what Event::End(tag) pushes, for the tags both renderers treat alike
EndMarkup(tag) ==
    CASE tag = "Strong" -> << "<", "/", "b", ">" >>
      [] tag = "Emphasis" -> << "<", "i", ">" >>
      [] tag = "Strikethrough" -> << "<", "/", "s", ">" >>
      [] tag = "Heading" -> << "<", "/", "s", "p", "a", "n", ">", "\n" >>
      [] tag = "BlockQuote" ->
             << "<", "/", "b", "l", "o", "c", "k", "q", "u", "o", "t", "e",
                ">", "\n" >>
      [] tag = "Link" -> << "<", "/", "u", ">" >>
      [] tag = "Item" -> << "\n" >>
      [] OTHER -> <<>>

\* the line of Event::Rule: a newline, RuleLen box-drawing characters
\* (U+2500), a newline
RuleLine == << "\n" >> \o [i \in 1..RuleLen |-> "U+2500"] \o << "\n" >>

\* (variant: inline code is wrapped as it is)
InlineCode_Raw(code) ==
    << "<", "t", "t", ">" >> \o code \o << "<", "/", "t", "t", ">" >>

\* format!("<tt>{}</tt>", glib::markup_escape_text(&code))
InlineCode(code) ==
    << "<", "t", "t", ">" >> \o markup_escape_text(code)
        \o << "<", "/", "t", "t", ">" >>

TextBlock(text) == [kind |-> "Text", lang |-> <<>>, body |-> text]
\* (variant: the block does not keep the language)
CodeBlock_Untagged(lang, code) ==
    [kind |-> "Code", lang |-> <<>>, body |-> code]

CodeBlock(lang, code) == [kind |-> "Code", lang |-> lang, body |-> code]

\* the locals of parse_markdown before the loop
ParseStart ==
    [blocks |-> <<>>, current_text |-> <<>>, in_code_block |-> FALSE,
     code_lang |-> <<>>, current_code |-> <<>>]

\* one iteration of parse_markdown's `for event in parser'
ParseEvent(st, event) ==
    CASE event.kind = "Start" /\ event.tag = "CodeBlock" ->
             [st EXCEPT !.blocks = IF st.current_text # <<>>
                                   THEN Append(@, TextBlock(st.current_text))
                                   ELSE @,
                        !.current_text = <<>>,
                        !.in_code_block = TRUE,
                        !.code_lang = event.text]
      [] event.kind = "Start" /\ event.tag # "CodeBlock" ->
             [st EXCEPT !.current_text = @ \o StartMarkup(event.tag)]
      [] event.kind = "End" /\ event.tag = "CodeBlock" ->
             [st EXCEPT !.in_code_block = FALSE,
                        !.blocks = Append(@, CodeBlock(st.code_lang,
                                                       Trim(st.current_code))),
                        !.current_code = <<>>,
                        !.code_lang = <<>>]
      [] event.kind = "End" /\ event.tag # "CodeBlock" ->
             [st EXCEPT !.current_text = @ \o EndMarkup(event.tag)]
      [] event.kind = "Text" ->
             IF st.in_code_block
             THEN [st EXCEPT !.current_code = @ \o event.text]
             ELSE [st EXCEPT !.current_text = @ \o markup_escape_text(event.text)]
      [] event.kind = "Code" ->
             IF st.in_code_block
             THEN [st EXCEPT !.current_code = @ \o event.text]
             ELSE [st EXCEPT !.current_text = @ \o InlineCode(event.text)]
      [] event.kind = "SoftBreak" ->
             IF st.in_code_block
             THEN [st EXCEPT !.current_code = Append(@, "\n")]
             ELSE [st EXCEPT !.current_text = Append(@, "\n")]
      [] event.kind = "Rule" ->
             [st EXCEPT !.current_text = @ \o RuleLine]
      [] OTHER -> st

RECURSIVE ParseLoop(_, _)
ParseLoop(st, events) ==
    IF events = <<>> THEN st
    ELSE ParseLoop(ParseEvent(st, Head(events)), Tail(events))

\* parse_markdown: the blocks, with the text left at the end as a last block
parse_markdown(events) ==
    LET st == ParseLoop(ParseStart, events) IN
        IF st.current_text # <<>>
        THEN Append(st.blocks, TextBlock(st.current_text))
        ELSE st.blocks

\* (variant: inline code is pushed without its tt tags)
PangoEvent_PlainCode(event) ==
    CASE event.kind = "Start" /\ event.tag = "CodeBlock" ->
             << "\n", "<", "t", "t", ">" >>
      [] event.kind = "Start" /\ event.tag # "CodeBlock" ->
             StartMarkup(event.tag)
      [] event.kind = "End" /\ event.tag = "CodeBlock" ->
             << "<", "/", "t", "t", ">", "\n" >>
      [] event.kind = "End" /\ event.tag # "CodeBlock" ->
             EndMarkup(event.tag)
      [] event.kind = "Text" -> markup_escape_text(event.text)
      [] event.kind = "Code" -> markup_escape_text(event.text)
      [] event.kind = "SoftBreak" -> << "\n" >>
      [] event.kind = "Rule" -> RuleLine
      [] OTHER -> <<>>

\* what one event adds to the string of markdown_to_pango
PangoEvent(event) ==
    CASE event.kind = "Start" /\ event.tag = "CodeBlock" ->
             << "\n", "<", "t", "t", ">" >>
      [] event.kind = "Start" /\ event.tag # "CodeBlock" ->
             StartMarkup(event.tag)
      [] event.kind = "End" /\ event.tag = "CodeBlock" ->
             << "<", "/", "t", "t", ">", "\n" >>
      [] event.kind = "End" /\ event.tag # "CodeBlock" ->
             EndMarkup(event.tag)
      [] event.kind = "Text" -> markup_escape_text(event.text)
      [] event.kind = "Code" -> InlineCode(event.text)
      [] event.kind = "SoftBreak" -> << "\n" >>
      [] event.kind = "Rule" -> RuleLine
      [] OTHER -> <<>>

RECURSIVE markdown_to_pango(_)
markdown_to_pango(events) ==
    IF events = <<>> THEN <<>>
    ELSE PangoEvent(Head(events)) \o markdown_to_pango(Tail(events))

\* texts of the Text, Code and Html events
MdTexts == { << "a" >>, << "<", "&", ">" >> }

\* events without children
MdLeaves ==
    { TextEv(text) : text \in MdTexts }
        \cup { CodeEv(<< "<", "&", ">" >>), HtmlEv(<< "<", "b", ">" >>),
               SoftBreakEv, RuleEv }

MdTags ==
    { "Paragraph", "Strong", "Emphasis", "Strikethrough", "BlockQuote",
      "H1", "H2", "H3", "Link", "Item" }

\* a segment of the event stream: a leaf, or a Text or Code event inside one
\* Start / End pair (a fenced code block holds Text only)
MdSegments ==
    { << leaf >> : leaf \in MdLeaves }
        \cup { << StartEv(tag), leaf, EndEv(EndOf(tag)) >> :
                 tag \in MdTags,
                 leaf \in { e \in MdLeaves : e.kind \in { "Text", "Code" } } }
        \cup { << StartFenced(<< "r", "s" >>), TextEv(text),
                  EndEv("CodeBlock") >> :
                 text \in MdTexts \cup { << " ", "a", "\n" >> } }

RECURSIVE Flatten(_)
Flatten(segs) ==
    IF segs = <<>> THEN <<>> ELSE Head(segs) \o Flatten(Tail(segs))

\* the event streams: up to MaxSegments segments in a row
MdInputs ==
    { Flatten(segs) :
        segs \in UNION { [1..n -> MdSegments] : n \in 0..MaxSegments } }

\* the End tags of the regions that events leaves open, innermost last
RECURSIVE OpenTags(_, _)
OpenTags(events, stack) ==
    IF events = <<>> THEN stack
    ELSE LET e == Head(events) IN
         OpenTags(Tail(events),
                  CASE e.kind = "Start" -> Append(stack, EndOf(e.tag))
                    [] e.kind = "End" /\ stack # <<>> ->
                           SubSeq(stack, 1, Len(stack) - 1)
                    [] OTHER -> stack)

\* (variant: the parser stops where the text stops)
CloseAtEnd_None(events) == events

\* the parser at the end of the markdown text: pulldown_cmark ends every
\* region that is still open, innermost first
CloseAtEnd(events) ==
    LET stack == OpenTags(events, <<>>) IN
        events \o [i \in 1..Len(stack) |-> EndEv(stack[Len(stack) + 1 - i])]

\* the events read from the unfinished end of a text: a fence that is not
\* closed (with a line of code, or none yet), a quote in progress, and a
\* strong marker without its partner, which is plain text
MdOpenTails ==
    { << StartFenced(<< "r", "s" >>), TextEv(<< "<", "&", ">", "\n" >>) >>,
      << StartFenced(<<>>) >>,
      << StartEv("BlockQuote"), StartEv("Paragraph"), TextEv(<< "a" >>) >>,
      << StartEv("Paragraph"), TextEv(<< "*", "*", "a" >>) >> }

\* the event streams of texts that stop inside a region
MdPrefixInputs ==
    { CloseAtEnd(Flatten(segs) \o tail) :
        segs \in UNION { [1..n -> MdSegments] : n \in 0..(MaxSegments - 1) },
        tail \in MdOpenTails }

\* ------------------------------------------------------------ persistence
NoFile == [present |-> FALSE, content |-> <<>>]

\* serde_json::to_string(&s.history): id, title and the role/content of
\* every message (the auxiliary turn tag is not part of a ChatMessage)
SerializeMessage(m) == [role |-> m.role, content |-> m.content]
SerializeEntry(h) ==
    [id |-> h.id, title |-> h.title,
     messages |-> [i \in 1..Len(h.messages) |-> SerializeMessage(h.messages[i])]]
Serialize(hist) == [i \in 1..Len(hist) |-> SerializeEntry(hist[i])]

\* fs::write(path, data): whole-document overwrite; on failure the document
\* is left as it was
FsWrite(file, data, ok) == IF ok THEN [present |-> TRUE, content |-> data] ELSE file

\* (variant: the document is left in place)
FsRemove_Keep(file, ok) == file

\* fs::remove_file(path)
FsRemove(file, ok) == IF ok THEN NoFile ELSE file

\* the history build_ui loads from the document: the empty list when the
\* document is missing
LoadHistoryDoc(file) == IF file.present THEN file.content ELSE <<>>

\* ---------------------------------------------------------------- lookups
\* s.settings.agents.get(idx).cloned().unwrap_or_else(|| agents[0].clone())
AgentAt(idx) == IF idx + 1 <= Len(agents) THEN agents[idx + 1] ELSE agents[1]

\* s.settings.profiles.iter().find(|p| &p.name == active_name)
RECURSIVE FindProfile(_, _)
FindProfile(ps, name) ==
    IF ps = <<>> THEN None
    ELSE IF Head(ps).name = name THEN Head(ps).id
    ELSE FindProfile(Tail(ps), name)

\* profile_info: the id of the active profile, None without one
ProfileInfo == IF active_profile = <<>> THEN None
               ELSE FindProfile(profiles, active_profile[1])

\* fs::read_to_string(&mem_file): Ok(content) or Err
MemoryOf(id) == IF id \in DOMAIN memory THEN memory[id] ELSE NoFile

\* index of the history entry with the given id, 0 when none:
\* s.history.iter_mut().find(|x| x.id == id)
RECURSIVE FindEntryFrom(_, _, _)
FindEntryFrom(hist, id, i) ==
    IF i > Len(hist) THEN 0
    ELSE IF hist[i].id = id THEN i
    ELSE FindEntryFrom(hist, id, i + 1)
FindEntry(hist, id) == FindEntryFrom(hist, id, 1)

\* s.history.retain(|x| x.id != id)
RECURSIVE Retain(_, _)
Retain(hist, id) ==
    IF hist = <<>> THEN <<>>
    ELSE IF Head(hist).id # id THEN <<Head(hist)>> \o Retain(Tail(hist), id)
    ELSE Retain(Tail(hist), id)

\* ------------------------------------------------------------------ Init
\* serde_json::to_string(&s.settings)
SerializeSettings(ags, ps, active) ==
    [agents |-> ags, profiles |-> ps, active_profile |-> active]

\* State after build_ui: no history document; the settings document holds
\* two agents, no profile and no active profile.
Boot ==
    /\ send_btn = "Send"
    /\ messages = <<>>
    /\ history = <<>>
    /\ history_file = NoFile
    /\ history_list = <<>>
    /\ current_task = None
    /\ current_agent_idx = 0
    /\ agents = << "Default Assistant", "New Agent" >>
    /\ profiles = <<>>
    /\ active_profile = <<>>
    /\ settings_file =
           [present |-> TRUE,
            content |-> SerializeSettings(<< "Default Assistant", "New Agent" >>,
                                          <<>>, <<>>)]
    /\ selected_profile_idx = None
    /\ memory = << >>
    /\ task = <<>>
    /\ chan = <<>>
    /\ receiver = <<>>
    /\ title_job = <<>>
    /\ memory_job = <<>>
    /\ uuid = 0
    /\ stopped = {}
    /\ last_press = "none"
    /\ scenario \in {"history", "profiles"}
    /\ parser = <<>>
    /\ blocks = <<>>
    /\ pango_markup = <<>>

Init == Boot /\ scenario = "history"

\* -------------------------------------------------- handle_send_or_stop
\* (variant: the cancel rolls the last message of the Conversation back)
StopLogic_RollBack ==
    /\ current_task' = None
    /\ task' = IF current_task # None /\ task[current_task].pc # "finished"
               THEN [task EXCEPT ![current_task].abort = TRUE]
               ELSE task
    /\ stopped' = IF current_task # None THEN stopped \cup {current_task}
                  ELSE stopped
    /\ send_btn' = "Send"
    /\ messages' = IF messages = <<>> THEN messages
                   ELSE SubSeq(messages, 1, Len(messages) - 1)
    /\ UNCHANGED << history, history_file, history_list,
                    current_agent_idx, agents, profiles, active_profile,
                    settings_file, selected_profile_idx,
                    memory, chan, receiver, title_job, memory_job, uuid >>

\* STOP logic: take the handle, abort the task, flip the control
StopLogic ==
    /\ current_task' = None
    /\ task' = IF current_task # None /\ task[current_task].pc # "finished"
               THEN [task EXCEPT ![current_task].abort = TRUE]
               ELSE task
    /\ stopped' = IF current_task # None THEN stopped \cup {current_task}
                  ELSE stopped
    /\ send_btn' = "Send"
    /\ UNCHANGED << messages, history, history_file, history_list,
                    current_agent_idx, agents, profiles, active_profile, settings_file, selected_profile_idx,
                    memory, chan, receiver, title_job, memory_job, uuid >>

\* (variant: a send waits for the background jobs of the earlier turns)
SendLogic_WaitJobs(text, cap) ==
    /\ Len(task) < cap
    /\ \A t \in Turns : /\ title_job[t].pc \in {"none", "done"}
                         /\ memory_job[t].pc \in {"none", "done"}
    /\ send_btn' = "Stop"
    /\ chan' = Append(chan, <<>>)
    /\ receiver' = Append(receiver, [listening |-> TRUE, acc |-> <<>>,
                                     text |-> text, done |-> FALSE,
                                     history_id |-> None, lock |-> FALSE])
    /\ task' = Append(task, [pc |-> "spawned", abort |-> FALSE, text |-> text,
                             full_response |-> <<>>, profile_id |-> None,
                             failed |-> FALSE, mem_seen |-> <<>>,
                             lock |-> FALSE])
    /\ title_job' = Append(title_job, [pc |-> "none", history_id |-> None,
                                       res |-> <<>>, lock |-> FALSE,
                                       found |-> FALSE])
    /\ memory_job' = Append(memory_job, [pc |-> "none", id |-> None,
                                         existing_memory |-> <<>>,
                                         res |-> <<>>, write_lock |-> "none"])
    /\ current_task' = Len(task) + 1
    /\ UNCHANGED << messages, history, history_file, history_list,
                    current_agent_idx, agents, profiles, active_profile, settings_file, selected_profile_idx,
                    memory, uuid, stopped >>

\* SEND logic for a text that is not empty after trimming: flip the control,
\* create the channel, spawn the receiver loop and the request task, store
\* the task's abort handle
SendLogic(text, cap) ==
    /\ Len(task) < cap
    /\ send_btn' = "Stop"
    /\ chan' = Append(chan, <<>>)
    /\ receiver' = Append(receiver, [listening |-> TRUE, acc |-> <<>>,
                                     text |-> text, done |-> FALSE,
                                     history_id |-> None, lock |-> FALSE])
    /\ task' = Append(task, [pc |-> "spawned", abort |-> FALSE, text |-> text,
                             full_response |-> <<>>, profile_id |-> None,
                             failed |-> FALSE, mem_seen |-> <<>>,
                             lock |-> FALSE])
    /\ title_job' = Append(title_job, [pc |-> "none", history_id |-> None,
                                       res |-> <<>>, lock |-> FALSE,
                                       found |-> FALSE])
    /\ memory_job' = Append(memory_job, [pc |-> "none", id |-> None,
                                         existing_memory |-> <<>>,
                                         res |-> <<>>, write_lock |-> "none"])
    /\ current_task' = Len(task) + 1
    /\ UNCHANGED << messages, history, history_file, history_list,
                    current_agent_idx, agents, profiles, active_profile, settings_file, selected_profile_idx,
                    memory, uuid, stopped >>

\* the send button's click handler and the Return key controller
\* (cap bounds the number of sends a run accepts)
HandleSendOrStop(text, cap) ==
    IF send_btn = "Stop" THEN StopLogic
    ELSE IF IsEmptyAfterTrim(text)
         THEN UNCHANGED << send_btn, messages, history, history_file,
                           history_list, current_task, current_agent_idx,
                           agents, profiles, active_profile, settings_file, selected_profile_idx, memory, task,
                           chan, receiver, title_job, memory_job, uuid,
                           stopped >>
         ELSE SendLogic(text, cap)


\* ---------------------------------------------------------- request task
\* (variant: the memory blob is added without the trim().is_empty() test)
SystemPrompt_RawMemory(profile_id) ==
    [agent |-> AgentAt(current_agent_idx),
     profile |-> profile_id,
     memory |-> IF profile_id # None /\ MemoryOf(profile_id).present
                THEN MemoryOf(profile_id).content ELSE <<>>]

\* the system prompt synthesized for an empty Conversation: the agent's
\* system_prompt, the profile block when a profile is active, the memory
\* blob when the file can be read and is not empty after trimming
SystemPrompt(profile_id) ==
    [agent |-> AgentAt(current_agent_idx),
     profile |-> profile_id,
     memory |-> IF profile_id # None /\ MemoryOf(profile_id).present
                   /\ ~IsEmptyAfterTrim(MemoryOf(profile_id).content)
                THEN MemoryOf(profile_id).content ELSE <<>>]

\* (variant: the System message is pushed whatever the Conversation holds)
ComposeMessages_AlwaysSystem(msgs, profile_id, text, t) ==
    msgs \o << SystemMsg(SystemPrompt(profile_id), t), UserMsg(text, t) >>

\* message composition under the lock: a System message is pushed when the
\* Conversation is empty, then the User message
ComposeMessages(msgs, profile_id, text, t) ==
    (IF msgs = <<>> THEN << SystemMsg(SystemPrompt(profile_id), t) >> ELSE msgs)
        \o << UserMsg(text, t) >>

\* AbortHandle::abort stops a task at its next suspension point: the step
\* that is running when abort is called completes, and the await it reaches
\* drops the task.  pc after a step that leads to an await:
AfterStep(t, pc) == IF task[t].abort THEN "aborted" ELSE pc

\* (variant: the guard of the lock lives on after the block, across the
\* await)
TaskCompose_HoldLock(t) ==
    /\ task[t].pc = "spawned"
    /\ messages' = ComposeMessages(messages, ProfileInfo, task[t].text, t)
    /\ task' = [task EXCEPT ![t].pc = AfterStep(t, "opening"),
                             ![t].profile_id = ProfileInfo,
                             ![t].mem_seen = MemoryOf(ProfileInfo).content,
                             ![t].lock = TRUE]
    /\ UNCHANGED << send_btn, history, history_file, history_list,
                    current_task, current_agent_idx, agents, profiles,
                    active_profile, settings_file, selected_profile_idx, memory, chan, receiver, title_job,
                    memory_job, uuid, stopped, last_press, scenario, parser, blocks, pango_markup >>

\* first poll of the task: the block that holds the lock, up to the await of
\* send_chat_messages_stream; the guard is dropped where the block ends
\* (mem_seen is auxiliary: the content of the active profile's memory file
\* at this moment; lock: the task holds the session-state lock)
TaskCompose(t) ==
    /\ task[t].pc = "spawned"
    /\ IF agents = <<>>
       THEN \* s.settings.agents[0] panics: the task ends inside the lock
            \* block, which leaves the mutex poisoned
            /\ task' = [task EXCEPT ![t].pc = "panicked"]
            /\ UNCHANGED messages
       ELSE /\ messages' = ComposeMessages(messages, ProfileInfo,
                                           task[t].text, t)
            /\ task' = [task EXCEPT
                           ![t].pc = AfterStep(t, "opening"),
                           ![t].profile_id = ProfileInfo,
                           ![t].mem_seen = MemoryOf(ProfileInfo).content,
                           ![t].lock = FALSE]
    /\ UNCHANGED << send_btn, history, history_file, history_list,
                    current_task, current_agent_idx, agents, profiles,
                    active_profile, settings_file, selected_profile_idx, memory, chan, receiver, title_job,
                    memory_job, uuid, stopped, last_press, scenario, parser, blocks, pango_markup >>

\* send_chat_messages_stream(..).await returns Ok(stream)
TaskOpenOk(t) ==
    /\ task[t].pc = "opening"
    /\ task' = [task EXCEPT ![t].pc = AfterStep(t, "streaming")]
    /\ UNCHANGED << send_btn, messages, history, history_file, history_list,
                    current_task, current_agent_idx, agents, profiles,
                    active_profile, settings_file, selected_profile_idx, memory, chan, receiver, title_job,
                    memory_job, uuid, stopped, last_press, scenario, parser, blocks, pango_markup >>

\* send_chat_messages_stream(..).await returns Err(e): send Error, finish
TaskOpenErr(t) ==
    /\ task[t].pc = "opening"
    /\ task' = [task EXCEPT ![t].pc = "finished"]
    /\ chan' = [chan EXCEPT ![t] = Append(@, ErrorEv)]
    /\ UNCHANGED << send_btn, messages, history, history_file, history_list,
                    current_task, current_agent_idx, agents, profiles,
                    active_profile, settings_file, selected_profile_idx, memory, receiver, title_job, memory_job,
                    uuid, stopped, last_press, scenario, parser, blocks, pango_markup >>

\* stream.next().await yields Some(Ok(res)): accumulate and send Chunk.
\* The k-th fragment of a stream carries the content k (cap bounds the
\* number of fragments of one stream).
TaskChunk(t, cap) ==
    /\ task[t].pc = "streaming"
    /\ Len(task[t].full_response) < cap
    /\ LET c == Len(task[t].full_response) + 1 IN
         /\ task' = [task EXCEPT ![t].full_response = Append(@, c),
                                  ![t].pc = AfterStep(t, "streaming")]
         /\ chan' = [chan EXCEPT ![t] = Append(@, ChunkEv(c))]
    /\ UNCHANGED << send_btn, messages, history, history_file, history_list,
                    current_task, current_agent_idx, agents, profiles,
                    active_profile, settings_file, selected_profile_idx, memory, receiver, title_job, memory_job,
                    uuid, stopped, last_press, scenario, parser, blocks, pango_markup >>

\* stream.next().await yields Some(Err(e)), a transport failure in the
\* middle of the stream: `if let Ok(res) = res' skips the item and the loop
\* goes on (failed is auxiliary: the stream of the turn had such an item)
TaskStreamErr(t) ==
    /\ task[t].pc = "streaming"
    /\ ~task[t].failed
    /\ task' = [task EXCEPT ![t].failed = TRUE,
                             ![t].pc = AfterStep(t, "streaming")]
    /\ UNCHANGED << send_btn, messages, history, history_file, history_list,
                    current_task, current_agent_idx, agents, profiles,
                    active_profile, settings_file, selected_profile_idx, memory, chan, receiver, title_job,
                    memory_job, uuid, stopped, last_press, scenario, parser, blocks, pango_markup >>

\* stream.next().await yields None: spawn the memory job when a profile was
\* active at composition, send Done(full_response), finish
TaskStreamEnd(t) ==
    /\ task[t].pc = "streaming"
    /\ task' = [task EXCEPT ![t].pc = "finished"]
    /\ memory_job' = IF task[t].profile_id # None
                     THEN [memory_job EXCEPT ![t].pc = "spawned",
                                             ![t].id = task[t].profile_id]
                     ELSE memory_job
    /\ chan' = [chan EXCEPT ![t] = Append(@, DoneEv(task[t].full_response))]
    /\ UNCHANGED << send_btn, messages, history, history_file, history_list,
                    current_task, current_agent_idx, agents, profiles,
                    active_profile, settings_file, selected_profile_idx, memory, receiver, title_job, uuid,
                    stopped, last_press, scenario, parser, blocks, pango_markup >>

\* the task was suspended at an await when abort was called: it is dropped
TaskAborted(t) ==
    /\ task[t].abort
    /\ task[t].pc \in {"spawned", "opening", "streaming"}
    /\ task' = [task EXCEPT ![t].pc = "aborted"]
    /\ UNCHANGED << send_btn, messages, history, history_file, history_list,
                    current_task, current_agent_idx, agents, profiles,
                    active_profile, settings_file, selected_profile_idx, memory, chan, receiver, title_job,
                    memory_job, uuid, stopped, last_press, scenario, parser, blocks, pango_markup >>

\* ---------------------------------------------------------- receiver loop
\* (variant: the chunk is put in front of the accumulated text)
OnChunk_Prepend(t, chunk) ==
    /\ receiver' = [receiver EXCEPT ![t].acc = << chunk >> \o @]
    /\ UNCHANGED << send_btn, messages, history, history_file, history_list,
                    current_task, title_job, uuid >>

\* ChatEvent::Chunk
OnChunk(t, chunk) ==
    /\ receiver' = [receiver EXCEPT ![t].acc = Append(@, chunk)]
    /\ UNCHANGED << send_btn, messages, history, history_file, history_list,
                    current_task, title_job, uuid >>

\* (variant: the handle is left in the slot)
OnError_KeepHandle(t) ==
    /\ send_btn' = "Send"
    /\ receiver' = [receiver EXCEPT ![t].listening = FALSE]
    /\ UNCHANGED << messages, history, history_file, history_list, title_job,
                    uuid, current_task >>

\* ChatEvent::Error: flip the control, clear the handle, leave the loop
OnError(t) ==
    /\ send_btn' = "Send"
    /\ current_task' = None
    /\ receiver' = [receiver EXCEPT ![t].listening = FALSE, ![t].lock = FALSE]
    /\ UNCHANGED << messages, history, history_file, history_list, title_job,
                    uuid >>

\* ChatEvent::RefreshHistory: rebuild the rows from s.history
OnRefreshHistory(t) ==
    /\ history_list' = history
    /\ UNCHANGED << send_btn, messages, history, history_file, current_task,
                    receiver, title_job, uuid >>

\* the Conversation after the Done handler's push
DoneMessages(msgs, full_text, t) == Append(msgs, AssistantMsg(full_text, t))

\* (variant: `<' for `<=')
IsFirstMessage_Strict(msgs) == Len(msgs) < FirstExchangeLen

\* is_first_message
IsFirstMessage(msgs) == Len(msgs) <= FirstExchangeLen

\* (variant: a failed write of the document leaves the handler early: the
\* entry is dropped again and the control is not reset)
OnDone_StopOnWriteError(t, full_text, ok) ==
    LET msgs == DoneMessages(messages, full_text, t)
        history_id == uuid + 1
        history_item == [id |-> history_id,
                         title |-> Take(receiver[t].text, TitleLen),
                         messages |-> msgs]
        hist == Append(history, history_item)
    IN  /\ uuid' = uuid + 1
        /\ messages' = msgs
        /\ current_task' = None
        /\ history' = IF ok THEN hist ELSE history
        /\ history_file' = FsWrite(history_file, Serialize(hist), ok)
        /\ send_btn' = IF ok THEN "Send" ELSE send_btn
        /\ history_list' = IF ok THEN hist ELSE history_list
        /\ receiver' = [receiver EXCEPT ![t].done = TRUE,
                                        ![t].history_id = history_id,
                                        ![t].lock = FALSE]
        /\ title_job' = IF IsFirstMessage(msgs) /\ ok
                        THEN [title_job EXCEPT ![t].pc = "running",
                                               ![t].history_id = history_id]
                        ELSE title_job

\* ChatEvent::Done: push the Assistant message, clear the handle, push and
\* write the history entry, flip the control, refresh the rows, spawn the
\* title job for a first exchange
OnDone(t, full_text, ok) ==
    LET msgs == DoneMessages(messages, full_text, t)
        history_id == uuid + 1
        history_item == [id |-> history_id,
                         title |-> Take(receiver[t].text, TitleLen),
                         messages |-> msgs]
        hist == Append(history, history_item)
    IN  /\ uuid' = uuid + 1
        /\ messages' = msgs
        /\ current_task' = None
        /\ history' = hist
        /\ history_file' = FsWrite(history_file, Serialize(hist), ok)
        /\ IF agents = <<>>
           THEN \* s.settings.agents[0] panics at the end of the lock block:
                \* the handler and the loop end there, the mutex is poisoned
                /\ UNCHANGED << send_btn, history_list, title_job >>
                /\ receiver' = [receiver EXCEPT ![t].done = TRUE,
                                                ![t].listening = FALSE,
                                                ![t].history_id = history_id,
                                                ![t].lock = FALSE]
           ELSE /\ send_btn' = "Send"
                /\ history_list' = hist
                /\ receiver' = [receiver EXCEPT ![t].done = TRUE,
                                                ![t].history_id = history_id,
                                                ![t].lock = FALSE]
                /\ title_job' =
                       IF IsFirstMessage(msgs)
                       THEN [title_job EXCEPT ![t].pc = "running",
                                              ![t].history_id = history_id]
                       ELSE title_job

\* (variant: the loop is left once Done has been handled)
Receive_UntilDone(t, ok) ==
    /\ receiver[t].listening
    /\ ~receiver[t].done
    /\ chan[t] # <<>>
    /\ chan' = [chan EXCEPT ![t] = Tail(@)]
    /\ LET event == Head(chan[t]) IN
         CASE event.type = "Chunk" -> OnChunk(t, event.data)
           [] event.type = "Error" -> OnError(t)
           [] event.type = "RefreshHistory" -> OnRefreshHistory(t)
           [] event.type = "Done" -> OnDone(t, event.data, ok)
    /\ UNCHANGED << current_agent_idx, agents, profiles, active_profile, settings_file, selected_profile_idx,
                    memory, task, memory_job, stopped, last_press, scenario, parser, blocks, pango_markup >>

\* one iteration of `while let Ok(event) = receiver.recv().await'; ok is
\* the outcome of the Done handler's fs::write
Receive(t, ok) ==
    /\ receiver[t].listening
    /\ chan[t] # <<>>
    /\ chan' = [chan EXCEPT ![t] = Tail(@)]
    /\ LET event == Head(chan[t]) IN
         CASE event.type = "Chunk" -> OnChunk(t, event.data)
           [] event.type = "Error" -> OnError(t)
           [] event.type = "RefreshHistory" -> OnRefreshHistory(t)
           [] event.type = "Done" -> OnDone(t, event.data, ok)
    /\ UNCHANGED << current_agent_idx, agents, profiles, active_profile, settings_file, selected_profile_idx,
                    memory, task, memory_job, stopped, last_press, scenario, parser, blocks, pango_markup >>


\* -------------------------------------------------------------- title job
\* (variant: the title of every entry is overwritten)
SetTitle_All(hist, i, new_title) ==
    [k \in 1..Len(hist) |-> [hist[k] EXCEPT !.title = new_title]]

\* s.history with the title of the entry at index i overwritten
SetTitle(hist, i, new_title) == [hist EXCEPT ![i].title = new_title]

\* (variant: an entry that is gone is pushed again with the new title)
TitleJobOk_Restore(t, res, ok) ==
    /\ title_job[t].pc = "running"
    /\ title_job' = [title_job EXCEPT
                        ![t].pc = "done", ![t].res = res, ![t].lock = FALSE,
                        ![t].found =
                            FindEntry(history, title_job[t].history_id) # 0]
    /\ LET new_title == CleanTitle(res)
           i == FindEntry(history, title_job[t].history_id)
           entry == [id |-> title_job[t].history_id, title |-> new_title,
                     messages |-> <<>>]
           hist == IF i # 0 THEN SetTitle(history, i, new_title)
                   ELSE Append(history, entry)
       IN  IF new_title # <<>>
           THEN /\ history' = hist
                /\ history_file' = FsWrite(history_file, Serialize(hist), ok)
           ELSE UNCHANGED << history, history_file >>
    /\ chan' = IF receiver[t].listening
               THEN [chan EXCEPT ![t] = Append(@, RefreshEv)] ELSE chan
    /\ UNCHANGED << send_btn, messages, history_list, current_task,
                    current_agent_idx, agents, profiles, active_profile, settings_file, selected_profile_idx,
                    memory, task, receiver, memory_job, uuid, stopped,
                    last_press, scenario, parser, blocks, pango_markup >>

\* send_chat_messages(req).await returns Ok(res): clean the title, overwrite
\* the entry found by id and write the document, then send RefreshHistory
\* after the block that holds the lock has ended
\* (the job keeps the response it got, and whether it found its entry:
\* auxiliary)
TitleJobOk(t, res, ok) ==
    /\ title_job[t].pc = "running"
    /\ title_job' = [title_job EXCEPT
                        ![t].pc = "done", ![t].res = res, ![t].lock = FALSE,
                        ![t].found =
                            FindEntry(history, title_job[t].history_id) # 0]
    /\ LET new_title == CleanTitle(res)
           i == FindEntry(history, title_job[t].history_id)
       IN  IF new_title # <<>> /\ i # 0
           THEN /\ history' = SetTitle(history, i, new_title)
                /\ history_file' =
                       FsWrite(history_file,
                               Serialize(SetTitle(history, i, new_title)), ok)
           ELSE UNCHANGED << history, history_file >>
    /\ chan' = IF receiver[t].listening
               THEN [chan EXCEPT ![t] = Append(@, RefreshEv)] ELSE chan
    /\ UNCHANGED << send_btn, messages, history_list, current_task,
                    current_agent_idx, agents, profiles, active_profile, settings_file, selected_profile_idx,
                    memory, task, receiver, memory_job, uuid, stopped,
                    last_press, scenario, parser, blocks, pango_markup >>

\* send_chat_messages(req).await returns Err: the job ends silently
TitleJobFail(t) ==
    /\ title_job[t].pc = "running"
    /\ title_job' = [title_job EXCEPT ![t].pc = "done"]
    /\ UNCHANGED << send_btn, messages, history, history_file, history_list,
                    current_task, current_agent_idx, agents, profiles,
                    active_profile, settings_file, selected_profile_idx, memory, task, chan, receiver, memory_job,
                    uuid, stopped, last_press, scenario, parser, blocks, pango_markup >>

\* ------------------------------------------------------------- memory job
\* (variant: the existing memory is the one read when the request was
\* composed)
MemoryJobStart_Stale(t) ==
    /\ memory_job[t].pc = "spawned"
    /\ memory_job' = [memory_job EXCEPT
                        ![t].pc = "waiting",
                        ![t].existing_memory = task[t].mem_seen]
    /\ UNCHANGED << send_btn, messages, history, history_file, history_list,
                    current_task, current_agent_idx, agents, profiles,
                    active_profile, settings_file, selected_profile_idx, memory, task, chan, receiver, title_job,
                    uuid, stopped, last_press, scenario, parser, blocks, pango_markup >>

\* first poll of the job: read the memory file (unwrap_or_default), build
\* the prompt, await send_chat_messages
MemoryJobStart(t) ==
    /\ memory_job[t].pc = "spawned"
    /\ memory_job' = [memory_job EXCEPT
                        ![t].pc = "waiting",
                        ![t].existing_memory = MemoryOf(memory_job[t].id).content]
    /\ UNCHANGED << send_btn, messages, history, history_file, history_list,
                    current_task, current_agent_idx, agents, profiles,
                    active_profile, settings_file, selected_profile_idx, memory, task, chan, receiver, title_job,
                    uuid, stopped, last_press, scenario, parser, blocks, pango_markup >>

\* (variant: the file of every profile is written)
WriteMemory_AllFiles(mem, id, new_memory, ok) ==
    IF ok THEN [x \in DOMAIN mem \cup {id} |->
                   [present |-> TRUE, content |-> new_memory]]
    ELSE mem

\* the memory files after fs::write(mem_file, new_memory)
WriteMemory(mem, id, new_memory, ok) ==
    IF ok THEN [x \in DOMAIN mem \cup {id} |->
                   IF x = id THEN [present |-> TRUE, content |-> new_memory]
                   ELSE mem[x]]
    ELSE mem

\* (variant: the write is skipped when the job of a later turn has already
\* finished)
MemoryJobOk_VersionCheck(t, res, ok) ==
    /\ memory_job[t].pc = "waiting"
    /\ memory_job' = [memory_job EXCEPT
                        ![t].pc = "done", ![t].res = res,
                        ![t].write_lock = IF Trim(res) # <<>> THEN "free" ELSE @]
    /\ memory' = IF Trim(res) # <<>>
                    /\ ~\E u \in Turns : u > t /\ memory_job[u].pc = "done"
                 THEN WriteMemory(memory, memory_job[t].id, Trim(res), ok)
                 ELSE memory
    /\ UNCHANGED << send_btn, messages, history, history_file, history_list,
                    current_task, current_agent_idx, agents, profiles,
                    active_profile, settings_file, selected_profile_idx, task, chan, receiver, title_job, uuid,
                    stopped, last_press, scenario, parser, blocks, pango_markup >>

\* the completion returns Ok(res): a response that is not empty after
\* trimming replaces the profile's memory file.  The job never takes the
\* session-state lock.  (auxiliary: res keeps the response, write_lock
\* whether the lock was held when the job called fs::write)
MemoryJobOk(t, res, ok) ==
    /\ memory_job[t].pc = "waiting"
    /\ memory_job' = [memory_job EXCEPT
                        ![t].pc = "done", ![t].res = res,
                        ![t].write_lock = IF Trim(res) # <<>> THEN "free" ELSE @]
    /\ memory' = IF Trim(res) # <<>>
                 THEN WriteMemory(memory, memory_job[t].id, Trim(res), ok)
                 ELSE memory
    /\ UNCHANGED << send_btn, messages, history, history_file, history_list,
                    current_task, current_agent_idx, agents, profiles,
                    active_profile, settings_file, selected_profile_idx, task, chan, receiver, title_job, uuid,
                    stopped, last_press, scenario, parser, blocks, pango_markup >>

\* the completion returns Err: memory untouched
MemoryJobFail(t) ==
    /\ memory_job[t].pc = "waiting"
    /\ memory_job' = [memory_job EXCEPT ![t].pc = "done"]
    /\ UNCHANGED << send_btn, messages, history, history_file, history_list,
                    current_task, current_agent_idx, agents, profiles,
                    active_profile, settings_file, selected_profile_idx, memory, task, chan, receiver, title_job,
                    uuid, stopped, last_press, scenario, parser, blocks, pango_markup >>

\* ------------------------------------------------- conversation handlers
\* new_chat_btn clicked
NewChat ==
    /\ messages' = <<>>
    /\ UNCHANGED << send_btn, history, history_file, history_list,
                    current_task, current_agent_idx, agents, profiles,
                    active_profile, settings_file, selected_profile_idx, memory, task, chan, receiver, title_job,
                    memory_job, uuid, stopped, last_press, scenario, parser, blocks, pango_markup >>

\* agent_dropdown selected-notify
AgentSwitch(idx) ==
    /\ current_agent_idx' = idx
    /\ messages' = <<>>
    /\ UNCHANGED << send_btn, history, history_file, history_list,
                    current_task, agents, profiles, active_profile, settings_file, selected_profile_idx, memory,
                    task, chan, receiver, title_job, memory_job, uuid,
                    stopped, last_press, scenario, parser, blocks, pango_markup >>

\* a history row clicked: the Conversation becomes the row's snapshot
LoadHistory(i) ==
    /\ i \in 1..Len(history_list)
    /\ messages' = history_list[i].messages
    /\ UNCHANGED << send_btn, history, history_file, history_list,
                    current_task, current_agent_idx, agents, profiles,
                    active_profile, settings_file, selected_profile_idx, memory, task, chan, receiver, title_job,
                    memory_job, uuid, stopped, last_press, scenario, parser, blocks, pango_markup >>

\* (variant: the retitled entry also takes the current Conversation as its
\* messages)
RenameHistory_Resnapshot(i, new_title, ok) ==
    /\ i \in 1..Len(history_list)
    /\ new_title # <<>>
    /\ LET k == FindEntry(history, history_list[i].id)
           hist == IF k # 0
                   THEN [SetTitle(history, k, new_title)
                            EXCEPT ![k].messages = messages]
                   ELSE history
       IN
         /\ history' = hist
         /\ history_file' =
                IF k # 0 THEN FsWrite(history_file, Serialize(hist), ok)
                ELSE history_file
         /\ history_list' = history'
    /\ UNCHANGED << send_btn, messages, current_task, current_agent_idx,
                    agents, profiles, active_profile, settings_file, selected_profile_idx, memory, task, chan,
                    receiver, title_job, memory_job, uuid, stopped,
                    last_press, scenario, parser, blocks, pango_markup >>

\* rename_confirm_btn of a row: an empty title returns at once; else the
\* entry found by id is retitled and the document written; rows refreshed
RenameHistory(i, new_title, ok) ==
    /\ i \in 1..Len(history_list)
    /\ new_title # <<>>
    /\ LET k == FindEntry(history, history_list[i].id) IN
         /\ history' = IF k # 0 THEN SetTitle(history, k, new_title) ELSE history
         /\ history_file' =
                IF k # 0
                THEN FsWrite(history_file,
                             Serialize(SetTitle(history, k, new_title)), ok)
                ELSE history_file
         /\ history_list' = history'
    /\ UNCHANGED << send_btn, messages, current_task, current_agent_idx,
                    agents, profiles, active_profile, settings_file, selected_profile_idx, memory, task, chan,
                    receiver, title_job, memory_job, uuid, stopped,
                    last_press, scenario, parser, blocks, pango_markup >>

\* delete_btn of a row: retain the other entries, write, refresh the rows
DeleteHistory(i, ok) ==
    /\ i \in 1..Len(history_list)
    /\ history' = Retain(history, history_list[i].id)
    /\ history_file' =
           FsWrite(history_file,
                   Serialize(Retain(history, history_list[i].id)), ok)
    /\ history_list' = history'
    /\ UNCHANGED << send_btn, messages, current_task, current_agent_idx,
                    agents, profiles, active_profile, settings_file, selected_profile_idx, memory, task, chan,
                    receiver, title_job, memory_job, uuid, stopped,
                    last_press, scenario, parser, blocks, pango_markup >>

\* delete_chat_history_btn: clear the list and remove the document; the rows
\* are not refreshed
DeleteChatHistory(ok) ==
    /\ history' = <<>>
    /\ history_file' = FsRemove(history_file, ok)
    /\ UNCHANGED << send_btn, messages, history_list, current_task,
                    current_agent_idx, agents, profiles, active_profile, settings_file, selected_profile_idx,
                    memory, task, chan, receiver, title_job, memory_job, uuid,
                    stopped, last_press, scenario, parser, blocks, pango_markup >>

\* ------------------------------------------------------ profile handlers
\* a profile's circle button clicked
SelectProfile(idx) ==
    /\ idx \in 1..Len(profiles)
    /\ selected_profile_idx' = idx
    /\ UNCHANGED << send_btn, messages, history, history_file, history_list,
                    current_task, current_agent_idx, agents, profiles,
                    active_profile, settings_file, memory, task, chan,
                    receiver, title_job, memory_job, uuid, stopped,
                    last_press, scenario, parser, blocks, pango_markup >>

\* ids drawn for profiles so far: every id that is not a history id
ProfileIdsDrawn == uuid - Cardinality({ t \in Turns : receiver[t].done })

\* "+" clicked: push a profile with a fresh id, write the settings, select it
AddProfile(ok) ==
    /\ Len(profiles) < MaxProfiles
    /\ ProfileIdsDrawn < MaxProfileIds
    /\ LET ps == Append(profiles, [id |-> uuid + 1, name |-> "New Profile"]) IN
         /\ profiles' = ps
         /\ settings_file' =
                FsWrite(settings_file,
                        SerializeSettings(agents, ps, active_profile), ok)
         /\ selected_profile_idx' = Len(ps)
    /\ uuid' = uuid + 1
    /\ UNCHANGED << send_btn, messages, history, history_file, history_list,
                    current_task, current_agent_idx, agents, active_profile,
                    memory, task, chan, receiver, title_job, memory_job,
                    stopped, last_press, scenario, parser, blocks, pango_markup >>

\* "Save Changes" clicked: the selected profile takes the name of the form
SaveProfile(name, ok) ==
    /\ selected_profile_idx # None
    /\ selected_profile_idx <= Len(profiles)
    /\ LET ps == [profiles EXCEPT ![selected_profile_idx].name = name] IN
         /\ profiles' = ps
         /\ settings_file' =
                FsWrite(settings_file,
                        SerializeSettings(agents, ps, active_profile), ok)
    /\ UNCHANGED << send_btn, messages, history, history_file, history_list,
                    current_task, current_agent_idx, agents, active_profile,
                    selected_profile_idx, memory, task, chan, receiver,
                    title_job, memory_job, uuid, stopped, last_press, scenario, parser, blocks, pango_markup >>

\* "Activate" clicked: the active reference takes the selected profile's name
ActivateProfile(ok) ==
    /\ selected_profile_idx # None
    /\ selected_profile_idx <= Len(profiles)
    /\ LET active == << profiles[selected_profile_idx].name >> IN
         /\ active_profile' = active
         /\ settings_file' =
                FsWrite(settings_file,
                        SerializeSettings(agents, profiles, active), ok)
    /\ UNCHANGED << send_btn, messages, history, history_file, history_list,
                    current_task, current_agent_idx, agents, profiles,
                    selected_profile_idx, memory, task, chan, receiver,
                    title_job, memory_job, uuid, stopped, last_press, scenario, parser, blocks, pango_markup >>

\* profiles.remove(idx)
RemoveAt(ps, idx) == SubSeq(ps, 1, idx - 1) \o SubSeq(ps, idx + 1, Len(ps))

\* "Delete" clicked: remove the selected profile, clear the active reference
\* when it holds the removed profile's name, write, drop the selection
DeleteProfile(ok) ==
    /\ selected_profile_idx # None
    /\ IF selected_profile_idx <= Len(profiles)
       THEN LET name == profiles[selected_profile_idx].name
                ps == RemoveAt(profiles, selected_profile_idx)
                active == IF active_profile = << name >> THEN <<>>
                          ELSE active_profile
            IN  /\ profiles' = ps
                /\ active_profile' = active
                /\ settings_file' =
                       FsWrite(settings_file,
                               SerializeSettings(agents, ps, active), ok)
       ELSE UNCHANGED << profiles, active_profile, settings_file >>
    /\ selected_profile_idx' = None
    /\ UNCHANGED << send_btn, messages, history, history_file, history_list,
                    current_task, current_agent_idx, agents, memory, task,
                    chan, receiver, title_job, memory_job, uuid, stopped,
                    last_press, scenario, parser, blocks, pango_markup >>

\* "Clear Memory" clicked: remove the selected profile's memory file
ClearMemory(ok) ==
    /\ selected_profile_idx # None
    /\ selected_profile_idx <= Len(profiles)
    /\ memory' = IF ok
                 THEN [x \in DOMAIN memory \ {profiles[selected_profile_idx].id}
                          |-> memory[x]]
                 ELSE memory
    /\ UNCHANGED << send_btn, messages, history, history_file, history_list,
                    current_task, current_agent_idx, agents, profiles,
                    active_profile, settings_file, selected_profile_idx, task,
                    chan, receiver, title_job, memory_job, uuid, stopped,
                    last_press, scenario, parser, blocks, pango_markup >>

\* ------------------------------------------------------------- renderers
\* parse_markdown(&msg.content) when a message bubble is built
ParseMarkdownCall ==
    /\ blocks = <<>>
    /\ blocks' = << parse_markdown(parser) >>
    /\ UNCHANGED << send_btn, messages, history, history_file, history_list,
                    current_task, current_agent_idx, agents, profiles,
                    active_profile, settings_file, selected_profile_idx,
                    memory, task, chan, receiver, title_job, memory_job, uuid,
                    stopped, last_press, scenario, parser, pango_markup >>

\* markdown_to_pango(&full_response_acc) when a chunk is shown
MarkdownToPangoCall ==
    /\ pango_markup = <<>>
    /\ pango_markup' = << markdown_to_pango(parser) >>
    /\ UNCHANGED << send_btn, messages, history, history_file, history_list,
                    current_task, current_agent_idx, agents, profiles,
                    active_profile, settings_file, selected_profile_idx,
                    memory, task, chan, receiver, title_job, memory_job, uuid,
                    stopped, last_press, scenario, parser, blocks >>

\* ---------------------------------------------------------- agent editor
\* s.settings.agents.retain(|a| a.name != agent_name)
RECURSIVE RetainAgents(_, _)
RetainAgents(ags, name) ==
    IF ags = <<>> THEN <<>>
    ELSE (IF Head(ags) # name THEN << Head(ags) >> ELSE <<>>)
             \o RetainAgents(Tail(ags), name)

\* delete_btn of an agent row: retain the other agents, write the settings,
\* refresh the names of the dropdown
DeleteAgent(i, ok) ==
    /\ i \in 1..Len(agents)
    /\ agents' = RetainAgents(agents, agents[i])
    /\ settings_file' =
           FsWrite(settings_file,
                   SerializeSettings(RetainAgents(agents, agents[i]),
                                     profiles, active_profile), ok)
    /\ UNCHANGED << send_btn, messages, history, history_file, history_list,
                    current_task, current_agent_idx, profiles,
                    active_profile, selected_profile_idx, memory, task, chan,
                    receiver, title_job, memory_job, uuid, stopped,
                    last_press, scenario, parser, blocks, pango_markup >>

\* a panic inside a block that holds the lock poisons the mutex: from then
\* on every state.lock().unwrap() panics
Poisoned ==
    \E t \in Turns :
        \/ task[t].pc = "panicked"
        \/ receiver[t].done /\ ~receiver[t].listening

\* -------------------------------------------------------- specifications
\* a text that consists of spaces only (the empty text included)
IsBlank(text) == \A i \in 1..Len(text) : text[i] = " "

\* handle_send_or_stop with its outcome logged in last_press
Press(text, cap) ==
    /\ HandleSendOrStop(text, cap)
    /\ last_press' = IF send_btn = "Stop" THEN "stop"
                     ELSE IF IsBlank(text) THEN "empty" ELSE "send"
    /\ UNCHANGED << scenario, parser, blocks, pango_markup >>

\* Spec: the send/stop control, the request tasks and the receiver loops
Next ==
    \/ \E text \in Texts : Press(text, MaxTurns)
    \/ \E t \in Turns : TaskCompose(t)
    \/ \E t \in Turns : TaskOpenOk(t)
    \/ \E t \in Turns : TaskOpenErr(t)
    \/ \E t \in Turns : TaskChunk(t, MaxChunks)
    \/ \E t \in Turns : TaskStreamEnd(t)
    \/ \E t \in Turns : TaskAborted(t)
    \/ \E t \in Turns, ok \in BOOLEAN : Receive(t, ok)

Spec == Init /\ [][Next]_vars

\* SpecRace: the same operations over more turns, without the log
NextRace ==
    \/ \E text \in Texts : HandleSendOrStop(text, RaceTurns) /\ UNCHANGED << last_press, scenario, parser, blocks, pango_markup >>
    \/ \E t \in Turns : TaskCompose(t)
    \/ \E t \in Turns : TaskOpenOk(t)
    \/ \E t \in Turns : TaskOpenErr(t)
    \/ \E t \in Turns : TaskChunk(t, MaxChunks)
    \/ \E t \in Turns : TaskStreamEnd(t)
    \/ \E t \in Turns : TaskAborted(t)
    \/ \E t \in Turns : Receive(t, TRUE)

SpecRace == Init /\ [][NextRace]_vars

\* SpecConv: the operations that change the Conversation
NextConv ==
    \/ \E text \in Texts : HandleSendOrStop(text, ConvTurns) /\ UNCHANGED << last_press, scenario, parser, blocks, pango_markup >>
    \/ \E t \in Turns : TaskCompose(t)
    \/ \E t \in Turns : TaskOpenOk(t)
    \/ \E t \in Turns : TaskOpenErr(t)
    \/ \E t \in Turns : TaskChunk(t, ConvChunks)
    \/ \E t \in Turns : TaskStreamEnd(t)
    \/ \E t \in Turns : TaskAborted(t)
    \/ \E t \in Turns : Receive(t, TRUE)
    \/ NewChat
    \/ \E idx \in AgentIdxs : AgentSwitch(idx)
    \/ \E i \in 1..Len(history_list) : LoadHistory(i)

SpecConv == Init /\ [][NextConv]_vars

\* SpecAll: every handler.  A run exercises, next to the chat operations,
\* either the conversation and history handlers with the title job or the
\* profile handlers with the memory job; every write succeeds.
NextAll ==
    \/ \E text \in Texts : HandleSendOrStop(text, AllTurns) /\ UNCHANGED << last_press, scenario, parser, blocks, pango_markup >>
    \/ \E t \in Turns : TaskCompose(t)
    \/ \E t \in Turns : TaskOpenOk(t)
    \/ \E t \in Turns : TaskOpenErr(t)
    \/ \E t \in Turns : TaskChunk(t, AllChunks)
    \/ \E t \in Turns : TaskStreamEnd(t)
    \/ \E t \in Turns : TaskAborted(t)
    \/ \E t \in Turns : Receive(t, TRUE)
    \/ /\ scenario = "history"
       /\ \/ \E t \in Turns, res \in TitleResponses : TitleJobOk(t, res, TRUE)
          \/ \E t \in Turns : TitleJobFail(t)
          \/ NewChat
          \/ \E idx \in AgentIdxs : AgentSwitch(idx)
          \/ \E i \in 1..Len(history_list) : LoadHistory(i)
          \/ \E i \in 1..Len(history_list), new_title \in RenameTitles :
                 RenameHistory(i, new_title, TRUE)
          \/ \E i \in 1..Len(history_list) : DeleteHistory(i, TRUE)
          \/ DeleteChatHistory(TRUE)
    \/ /\ scenario = "profiles"
       /\ \/ \E t \in Turns : MemoryJobStart(t)
          \/ \E t \in Turns, res \in MemoryResponses : MemoryJobOk(t, res, TRUE)
          \/ \E t \in Turns : MemoryJobFail(t)
          \/ \E idx \in 1..Len(profiles) : SelectProfile(idx)
          \/ AddProfile(TRUE)
          \/ \E name \in ProfileNames : SaveProfile(name, TRUE)
          \/ ActivateProfile(TRUE)
          \/ DeleteProfile(TRUE)
          \/ ClearMemory(TRUE)

SpecAll == Boot /\ [][NextAll]_vars

\* SpecStream: the chat operations with streams that can fail in the middle
NextStream ==
    \/ \E text \in Texts : HandleSendOrStop(text, StreamTurns) /\ UNCHANGED << last_press, scenario, parser, blocks, pango_markup >>
    \/ \E t \in Turns : TaskCompose(t)
    \/ \E t \in Turns : TaskOpenOk(t)
    \/ \E t \in Turns : TaskOpenErr(t)
    \/ \E t \in Turns : TaskChunk(t, StreamChunks)
    \/ \E t \in Turns : TaskStreamErr(t)
    \/ \E t \in Turns : TaskStreamEnd(t)
    \/ \E t \in Turns : TaskAborted(t)
    \/ \E t \in Turns, ok \in BOOLEAN : Receive(t, ok)

SpecStream == Init /\ [][NextStream]_vars

\* SpecPersist: the chat operations with texts shorter and longer than a
\* title
NextPersist ==
    \/ \E text \in PersistTexts : HandleSendOrStop(text, PersistTurns) /\ UNCHANGED << last_press, scenario, parser, blocks, pango_markup >>
    \/ \E t \in Turns : TaskCompose(t)
    \/ \E t \in Turns : TaskOpenOk(t)
    \/ \E t \in Turns : TaskOpenErr(t)
    \/ \E t \in Turns : TaskChunk(t, PersistChunks)
    \/ \E t \in Turns : TaskStreamEnd(t)
    \/ \E t \in Turns : TaskAborted(t)
    \/ \E t \in Turns, ok \in BOOLEAN : Receive(t, ok)

SpecPersist == Init /\ [][NextPersist]_vars

\* SpecTitle: the chat operations, the title job and the history rows
NextTitle ==
    \/ \E text \in Texts : HandleSendOrStop(text, TitleTurns) /\ UNCHANGED << last_press, scenario, parser, blocks, pango_markup >>
    \/ \E t \in Turns : TaskCompose(t)
    \/ \E t \in Turns : TaskOpenOk(t)
    \/ \E t \in Turns : TaskOpenErr(t)
    \/ \E t \in Turns : TaskStreamEnd(t)
    \/ \E t \in Turns : TaskAborted(t)
    \/ \E t \in Turns : Receive(t, TRUE)
    \/ \E t \in Turns, res \in TitleResponses, ok \in BOOLEAN : TitleJobOk(t, res, ok)
    \/ \E t \in Turns : TitleJobFail(t)
    \/ \E i \in 1..Len(history_list) : DeleteHistory(i, TRUE)

SpecTitle == Init /\ [][NextTitle]_vars

\* the receiver loop of a turn is a future spawned on the GTK main context:
\* the main loop polls it whenever an event is queued on the turn's channel
SpecTitleFair ==
    /\ Init
    /\ [][NextTitle]_vars
    /\ \A t \in 1..TitleTurns : WF_vars(t \in Turns /\ Receive(t, TRUE))

\* SpecClean: one exchange and its title job, over every title response
NextClean ==
    \/ \E text \in Texts : HandleSendOrStop(text, CleanTurns) /\ UNCHANGED << last_press, scenario, parser, blocks, pango_markup >>
    \/ \E t \in Turns : TaskCompose(t)
    \/ \E t \in Turns : TaskOpenOk(t)
    \/ \E t \in Turns : TaskOpenErr(t)
    \/ \E t \in Turns : TaskStreamEnd(t)
    \/ \E t \in Turns : TaskAborted(t)
    \/ \E t \in Turns : Receive(t, TRUE)
    \/ \E t \in Turns, res \in TitleInputs : TitleJobOk(t, res, TRUE)
    \/ \E t \in Turns : TitleJobFail(t)

SpecClean == Init /\ [][NextClean]_vars

\* State after build_ui when the settings document holds two profiles, Ann
\* (active or not; her memory file absent, blank or filled) and Bob (with a
\* memory file).
InitMem ==
    /\ send_btn = "Send"
    /\ messages = <<>>
    /\ history = <<>>
    /\ history_file = NoFile
    /\ history_list = <<>>
    /\ current_task = None
    /\ current_agent_idx = 0
    /\ agents = << "Default Assistant", "New Agent" >>
    /\ profiles = << [id |-> 1, name |-> "Ann"], [id |-> 2, name |-> "Bob"] >>
    /\ active_profile \in { <<>>, << "Ann" >> }
    /\ settings_file =
           [present |-> TRUE,
            content |-> SerializeSettings(agents, profiles, active_profile)]
    /\ selected_profile_idx = None
    /\ \E ann \in { NoFile, [present |-> TRUE, content |-> << " " >>],
                     [present |-> TRUE, content |-> << "f" >>] } :
           memory = IF ann.present
                    THEN << ann, [present |-> TRUE, content |-> << "k" >>] >>
                    ELSE [x \in {2} |-> [present |-> TRUE, content |-> << "k" >>]]
    /\ task = <<>>
    /\ chan = <<>>
    /\ receiver = <<>>
    /\ title_job = <<>>
    /\ memory_job = <<>>
    /\ uuid = 2
    /\ stopped = {}
    /\ last_press = "none"
    /\ scenario = "profiles"
    /\ parser = <<>>
    /\ blocks = <<>>
    /\ pango_markup = <<>>

\* SpecMem: the chat operations with a profile, the memory job, agent switch
\* and the clearing of a memory file
NextMem ==
    \/ \E text \in Texts : HandleSendOrStop(text, MemTurns) /\ UNCHANGED << last_press, scenario, parser, blocks, pango_markup >>
    \/ \E t \in Turns : TaskCompose(t)
    \/ \E t \in Turns : TaskOpenOk(t)
    \/ \E t \in Turns : TaskOpenErr(t)
    \/ \E t \in Turns : TaskStreamEnd(t)
    \/ \E t \in Turns : TaskAborted(t)
    \/ \E t \in Turns : Receive(t, TRUE)
    \/ \E t \in Turns : MemoryJobStart(t)
    \/ \E t \in Turns, res \in MemInputs : MemoryJobOk(t, res, TRUE)
    \/ \E t \in Turns : MemoryJobFail(t)
    \/ \E idx \in AgentIdxs : AgentSwitch(idx)
    \/ \E idx \in 1..Len(profiles) : SelectProfile(idx)
    \/ ClearMemory(TRUE)

SpecMem == InitMem /\ [][NextMem]_vars

\* SpecProfiles: the handlers of the profile editor, from a settings
\* document that holds two profiles
NextProfiles ==
    \/ \E idx \in 1..Len(profiles) : SelectProfile(idx)
    \/ \E name \in ProfileNames, ok \in BOOLEAN : SaveProfile(name, ok)
    \/ \E ok \in BOOLEAN : ActivateProfile(ok)
    \/ \E ok \in BOOLEAN : DeleteProfile(ok)
    \/ \E ok \in BOOLEAN : ClearMemory(ok)

SpecProfiles == InitMem /\ [][NextProfiles]_vars

\* State after build_ui when Ann is the active profile and has no memory
\* file yet
InitJobs == InitMem /\ active_profile = << "Ann" >> /\ 1 \notin DOMAIN memory

\* SpecJobs: exchanges with an active profile and their memory jobs (the
\* title jobs are launched and stay pending)
NextJobs ==
    \/ \E text \in Texts : HandleSendOrStop(text, JobsTurns) /\ UNCHANGED << last_press, scenario, parser, blocks, pango_markup >>
    \/ \E t \in Turns : TaskCompose(t)
    \/ \E t \in Turns : TaskOpenOk(t)
    \/ \E t \in Turns : TaskOpenErr(t)
    \/ \E t \in Turns : TaskStreamEnd(t)
    \/ \E t \in Turns : TaskAborted(t)
    \/ \E t \in Turns : Receive(t, TRUE)
    \/ \E t \in Turns : MemoryJobStart(t)
    \/ \E t \in Turns, res \in JobsInputs : MemoryJobOk(t, res, TRUE)
    \/ \E t \in Turns : MemoryJobFail(t)

SpecJobs == InitJobs /\ [][NextJobs]_vars

\* SpecMarkdown: the two renderers applied to an event stream
InitMarkdown ==
    /\ send_btn = "Send"
    /\ messages = <<>>
    /\ history = <<>>
    /\ history_file = NoFile
    /\ history_list = <<>>
    /\ current_task = None
    /\ current_agent_idx = 0
    /\ agents = << "Default Assistant", "New Agent" >>
    /\ profiles = <<>>
    /\ active_profile = <<>>
    /\ settings_file =
           [present |-> TRUE,
            content |-> SerializeSettings(<< "Default Assistant", "New Agent" >>,
                                          <<>>, <<>>)]
    /\ selected_profile_idx = None
    /\ memory = << >>
    /\ task = <<>>
    /\ chan = <<>>
    /\ receiver = <<>>
    /\ title_job = <<>>
    /\ memory_job = <<>>
    /\ uuid = 0
    /\ stopped = {}
    /\ last_press = "none"
    /\ scenario = "history"
    /\ parser \in MdInputs \cup MdPrefixInputs
    /\ blocks = <<>>
    /\ pango_markup = <<>>

NextMarkdown ==
    \/ ParseMarkdownCall
    \/ MarkdownToPangoCall

SpecMarkdown == InitMarkdown /\ [][NextMarkdown]_vars

\* SpecAgents: exchanges while agents are deleted in the settings; a step
\* that would lock a poisoned mutex panics and does nothing more.  The
\* request task runs on the tokio runtime and the receiver loop on the GTK
\* main context: each is polled when it can take a step, and the endpoint
\* answers every request.
InitAgents == Init

TaskStep(t) ==
    \/ TaskCompose(t)
    \/ TaskOpenOk(t)
    \/ TaskOpenErr(t)
    \/ TaskStreamEnd(t)
    \/ TaskAborted(t)

NextAgents ==
    \/ ~Poisoned /\ \E text \in Texts :
           HandleSendOrStop(text, AgentTurns)
               /\ UNCHANGED << last_press, scenario, parser, blocks, pango_markup >>
    \/ \E t \in Turns : TaskCompose(t) /\ ~Poisoned
    \/ \E t \in Turns : TaskOpenOk(t)
    \/ \E t \in Turns : TaskOpenErr(t)
    \/ \E t \in Turns : TaskStreamEnd(t)
    \/ \E t \in Turns : TaskAborted(t)
    \/ ~Poisoned /\ \E t \in Turns, ok \in BOOLEAN : Receive(t, ok)
    \/ ~Poisoned /\ \E i \in 1..Len(agents), ok \in BOOLEAN : DeleteAgent(i, ok)
    \/ ~Poisoned /\ \E idx \in AgentIdxs : AgentSwitch(idx)

SpecAgents ==
    /\ InitAgents
    /\ [][NextAgents]_vars
    /\ \A t \in 1..AgentTurns :
           /\ WF_vars(t \in Turns /\ TaskStep(t))
           /\ WF_vars(t \in Turns /\ ~Poisoned
                         /\ \E ok \in BOOLEAN : Receive(t, ok))

\* ----------------------------------------------------------------- claims
\* the request task of turn t is in flight: spawned, not finished, and not
\* aborted
InFlight(t) ==
    /\ task[t].pc \in {"spawned", "opening", "streaming"}
    /\ ~task[t].abort

\* the session is Idle: the control shows Send and the handle slot is empty
Idle == send_btn = "Send" /\ current_task = None

HasAssistantOf(msgs, t) ==
    \E i \in 1..Len(msgs) : msgs[i].role = "Assistant" /\ msgs[i].turn = t

HasUserOf(msgs, t) ==
    \E i \in 1..Len(msgs) : msgs[i].role = "User" /\ msgs[i].turn = t

\* C1: in every reachable state at most one request task is in flight
C1_AtMostOneInFlight ==
    Cardinality({ t \in Turns : InFlight(t) }) <= 1

\* C2: once the STOP logic has cancelled a turn, the session is Idle right
\* after the cancel and the Conversation never holds an Assistant message of
\* that turn
C2_CancelNeverAppends ==
    /\ (last_press = "stop" => Idle)
    /\ \A t \in stopped : ~HasAssistantOf(messages, t)

\* C3: no history entry is ever created for a cancelled turn (no id is drawn
\* for it, so none is pushed to s.history or written to the document)
C3_CancelNoHistoryEntry ==
    \A t \in stopped :
        /\ receiver[t].history_id = None
        /\ \A i \in 1..Len(history) : ~HasAssistantOf(history[i].messages, t)

\* C4: after the cancel of a turn has been handled, no step changes the
\* display accumulator of that turn
C4_CancelDiscardsChunks ==
    [][\A t \in stopped : receiver'[t].acc = receiver[t].acc]_vars

\* C6: a press of the control while a request is in flight starts no new
\* request task
C6_SendWhileBusyRejected ==
    [][(\E t \in Turns : InFlight(t)) => Len(task') = Len(task)]_vars


\* C5: from Idle, a press with a text that is blank (empty after trimming)
\* changes nothing: Conversation, history, handle, control, tasks, channels
\* and receivers stay as they are
C5_EmptySendNoOp ==
    [][\A text \in Texts :
          (Idle /\ IsBlank(text) /\ Press(text, MaxTurns))
          => UNCHANGED << send_btn, messages, history, history_file,
                          history_list, current_task, task, chan, receiver,
                          title_job, memory_job >>]_vars

C5_Witness == last_press = "empty" /\ Idle /\ messages # <<>>

\* the stream of turn t failed to open: its Error event was emitted
OpenFailed(t) ==
    \/ \E i \in 1..Len(chan[t]) : chan[t][i].type = "Error"
    \/ ~receiver[t].listening

\* C7: every System message of the Conversation is at index 0 (so there is
\* at most one)
C7_SystemOnlyFirst ==
    \A i \in 1..Len(messages) : messages[i].role = "System" => i = 1

C7_Witness ==
    /\ Len(messages) >= 4
    /\ messages[1].role = "System"
    /\ HasUserOf(messages, 2)

\* C8: a Conversation that is not empty starts with a System message
C8_StartsWithSystem ==
    messages # <<>> => messages[1].role = "System"

\* C10: a failed open emits exactly the Error event; handling it leaves the
\* session Idle with the handle cleared and changes neither the Conversation
\* nor the history; the turn's User message is in the Conversation, no
\* Assistant message of the turn is, and no history entry is created for it
C10_OpenFailure ==
    /\ [](\A t \in Turns :
            OpenFailed(t) =>
                /\ HasUserOf(messages, t)
                /\ ~HasAssistantOf(messages, t)
                /\ receiver[t].history_id = None
                /\ ~receiver[t].done)
    /\ [][\A t \in Turns :
            /\ (task[t].pc = "opening" /\ task'[t].pc = "finished")
                   => chan'[t] = Append(chan[t], ErrorEv)
            /\ (receiver[t].listening /\ ~receiver'[t].listening)
                   => /\ send_btn' = "Send"
                      /\ current_task' = None
                      /\ UNCHANGED << messages, history, history_file >>]_vars

C10_Witness ==
    \E t \in Turns :
        /\ ~receiver[t].listening
        /\ task[t].pc = "finished"
        /\ HasUserOf(messages, t)
        /\ Idle


\* the step is the composition of the request task of turn t and appends the
\* User message of the send (after the System message when the Conversation
\* was empty)
SendAppend(t) ==
    /\ task[t].pc = "spawned" /\ task'[t].pc # "spawned"
    /\ \/ messages # <<>> /\ messages' = Append(messages, UserMsg(task[t].text, t))
       \/ /\ messages = <<>>
          /\ Len(messages') = 2
          /\ messages'[1].role = "System"
          /\ messages'[2] = UserMsg(task[t].text, t)

\* the step is the Done handler of turn t and appends the Assistant message
StreamEndAppend(t) ==
    /\ ~receiver[t].done /\ receiver'[t].done
    /\ chan[t] # <<>> /\ Head(chan[t]).type = "Done"
    /\ messages' = Append(messages, AssistantMsg(Head(chan[t]).data, t))

\* the step is the click of a history row and replaces the Conversation by
\* the row's snapshot
HistoryLoad ==
    \E i \in 1..Len(history_list) :
        LoadHistory(i) /\ messages' = history_list[i].messages

\* the step is new chat or an agent switch and clears the Conversation
ConversationClear ==
    (NewChat \/ \E idx \in AgentIdxs : AgentSwitch(idx)) /\ messages' = <<>>

\* C9: a step that changes the Conversation is the User append of a send,
\* the Assistant append of a stream end, a history load or a clear by new
\* chat or agent switch; every other step (cancel, stream error, history
\* rename and delete, profile handlers, title job, memory job) leaves it as
\* it is
C9_ConversationChanges ==
    [][messages' # messages =>
          \/ \E t \in Turns : SendAppend(t)
          \/ \E t \in Turns : StreamEndAppend(t)
          \/ HistoryLoad
          \/ ConversationClear]_vars

C9_Witness ==
    \E t \in stopped : HasUserOf(messages, t) /\ Idle


\* C11: a turn whose stream had a transport failure in the middle is not
\* persisted: its Done handler never runs, so no Assistant message of the
\* turn is appended and no history entry is created for it
C11_MidStreamFailure ==
    \A t \in Turns :
        task[t].failed =>
            /\ ~receiver[t].done
            /\ receiver[t].history_id = None
            /\ ~HasAssistantOf(messages, t)


\* a is a prefix of b
IsPrefix(a, b) == Len(a) <= Len(b) /\ SubSeq(b, 1, Len(a)) = a

\* the step is the Done handler of turn t
DoneStep(t) ==
    /\ ~receiver[t].done /\ receiver'[t].done
    /\ chan[t] # <<>> /\ Head(chan[t]).type = "Done"

\* C12: the display accumulator of a turn is at every moment a prefix of the
\* text its request task has accumulated; once Done is processed no Chunk of
\* the turn is left in the channel; when Done is processed the accumulator
\* equals the full text Done carries
C12_ChunkOrder ==
    /\ [](\A t \in Turns :
            /\ IsPrefix(receiver[t].acc, task[t].full_response)
            /\ receiver[t].done =>
                   \A i \in 1..Len(chan[t]) : chan[t][i].type # "Chunk")
    /\ [][\A t \in Turns :
            DoneStep(t) => receiver[t].acc = Head(chan[t]).data]_vars

C12_Witness ==
    \E t \in Turns : receiver[t].done /\ Len(receiver[t].acc) >= 2

\* C13: the Done handler appends one Assistant message with the full text to
\* the Conversation and one entry to the history: its id is fresh, its title
\* is the first 20 characters of the turn's text (the whole text when
\* shorter), its messages are the Conversation after the append; the entries
\* already there stay as they are
C13_StreamEndPersists ==
    [][\A t \in Turns :
          DoneStep(t) =>
              /\ Head(chan[t]).data = task[t].full_response
              /\ messages' = Append(messages,
                                    AssistantMsg(task[t].full_response, t))
              /\ Len(history') = Len(history) + 1
              /\ SubSeq(history', 1, Len(history)) = history
              /\ LET e == history'[Len(history')]
                     text == task[t].text
                 IN  /\ \A i \in 1..Len(history) : history[i].id # e.id
                     /\ e.id > uuid
                     /\ e.title = IF Len(text) <= 20 THEN text
                                  ELSE SubSeq(text, 1, 20)
                     /\ e.messages = messages']_vars

C13_Witness ==
    /\ Len(history) = 2
    /\ \E i \in 1..Len(history) :
           /\ Len(history[i].title) = 20
           /\ history[i].messages[Len(history[i].messages) - 1].content = LongText

\* C14: the Done handler launches the title job of its turn exactly when the
\* Conversation right after the Assistant append has at most 3 messages, and
\* nothing else launches a title job
C14_TitleJobIffFirstExchange ==
    [][\A t \in Turns :
          /\ DoneStep(t) =>
                 (title_job'[t].pc = "running" <=> Len(messages') <= 3)
          /\ (title_job[t].pc = "none" /\ title_job'[t].pc = "running")
                 => DoneStep(t)]_vars

C14_Witness ==
    /\ \E t \in Turns : receiver[t].done /\ title_job[t].pc = "running"
    /\ \E t \in Turns : receiver[t].done /\ title_job[t].pc = "none"


\* the step ends the title job of turn t
TitleJobStep(t) == title_job[t].pc = "running" /\ title_job'[t].pc = "done"

\* ids, messages and titles of the entries of a history
EntryIds(hist) == [i \in 1..Len(hist) |-> hist[i].id]
EntryMessages(hist) == [i \in 1..Len(hist) |-> hist[i].messages]

\* C16: the step that ends a title job changes at most the title of the
\* entry whose id the job was launched for: ids and messages of all entries
\* and the titles of the other entries stay; it changes the history only
\* when it writes a title that is not empty; when the completion fails or
\* the cleaned result is empty, history and document are unchanged; the only
\* event it emits is RefreshHistory, never Error
C16_TitleJobFrame ==
    [][\A t \in Turns :
          TitleJobStep(t) =>
              /\ EntryIds(history') = EntryIds(history)
              /\ EntryMessages(history') = EntryMessages(history)
              /\ \A i \in 1..Len(history) :
                     history'[i].title # history[i].title =>
                         /\ history[i].id = title_job[t].history_id
                         /\ history'[i].title # <<>>
              /\ history' = history => history_file' = history_file
              /\ (\/ TitleJobFail(t)
                  \/ \E res \in TitleResponses, ok \in BOOLEAN :
                         TitleJobOk(t, res, ok) /\ CleanTitle(res) = <<>>)
                     => UNCHANGED << history, history_file >>
              /\ \A u \in Turns :
                     \/ chan'[u] = chan[u]
                     \/ chan'[u] = Append(chan[u], RefreshEv)
              /\ UNCHANGED << messages, send_btn, current_task >>]_vars

C16_Witness ==
    /\ Len(history) = 2
    /\ \E t \in Turns : title_job[t].pc = "done"
    /\ history[1].title = <<"T">>
    /\ history[2].title # <<"T">>

\* the title the claim describes for a response: surrounding whitespace
\* removed, surrounding double quotes removed, one trailing period removed
ClaimedTitle(res) ==
    LET quoted == TrimMatches(Trim(res), "\"") IN
    IF quoted # <<>> /\ quoted[Len(quoted)] = "."
    THEN SubSeq(quoted, 1, Len(quoted) - 1)
    ELSE quoted

\* C17: the title a finished title job has written for a response is the
\* response without surrounding whitespace, surrounding double quotes and
\* one trailing period, for every response
C17_CleanTitle ==
    \A t \in Turns :
        LET i == FindEntry(history, title_job[t].history_id) IN
        (title_job[t].pc = "done" /\ i # 0 /\ ClaimedTitle(title_job[t].res) # <<>>)
            => history[i].title = ClaimedTitle(title_job[t].res)


\* the step is the composition of the request task of turn t (a task
\* dropped before its first poll composes nothing)
ComposeStep(t) ==
    /\ task[t].pc = "spawned" /\ task'[t].pc # "spawned"
    /\ messages' # messages

\* the content of the memory file of a profile id among the files mem, the
\* empty text when there is no file
BlobOf(mem, id) == IF id \in DOMAIN mem THEN mem[id].content ELSE <<>>

MemoryJobLaunch(t) == memory_job[t].pc = "none" /\ memory_job'[t].pc # "none"

\* C18: a memory job is launched only by the step that ends the stream of
\* its turn, only when a profile was active for the turn, and never for a
\* turn that was cancelled or whose stream failed to open
C18_MemoryJobLaunch ==
    [][\A t \in Turns :
          MemoryJobLaunch(t) =>
              /\ task[t].pc = "streaming" /\ task'[t].pc = "finished"
              /\ task[t].profile_id # None
              /\ t \notin stopped
              /\ ~OpenFailed(t)]_vars

\* the step ends the memory job of turn t
MemoryJobStep(t) == memory_job[t].pc = "waiting" /\ memory_job'[t].pc = "done"

C20_MemoryReadAtJobStart ==
    [][\A t \in Turns :
          (memory_job[t].pc = "spawned" /\ memory_job'[t].pc = "waiting")
              => memory_job'[t].existing_memory =
                     BlobOf(memory, memory_job[t].id)]_vars

C20_Witness ==
    \E t \in Turns :
        /\ memory_job[t].pc = "waiting"
        /\ memory_job[t].existing_memory # task[t].mem_seen


C22_JobsNeverBlock ==
    /\ [][\A t \in Turns : DoneStep(t) => Idle']_vars
    /\ []((Idle /\ Len(task) < JobsTurns) =>
             ENABLED (HandleSendOrStop(<< "h", "i" >>, JobsTurns)
                        /\ Len(task') = Len(task) + 1))

C22_Witness ==
    /\ Len(task) = 2
    /\ receiver[1].done
    /\ title_job[1].pc = "running"
    /\ memory_job[1].pc \in {"spawned", "waiting"}
    /\ task[2].pc = "opening"


C24_WritesUnderLock ==
    \A t \in Turns : memory_job[t].write_lock # "free"


\* C25: when the Done handler's write of the history document fails (the
\* document is as it was), the session is Idle after the handler, the
\* Conversation has the Assistant message and the history has the new entry
\* with the Conversation as its messages
C25_WriteFailureAtStreamEnd ==
    [][\A t \in Turns :
          (DoneStep(t) /\ history_file' = history_file) =>
              /\ Idle'
              /\ messages' = Append(messages,
                                    AssistantMsg(Head(chan[t]).data, t))
              /\ Len(history') = Len(history) + 1
              /\ SubSeq(history', 1, Len(history)) = history
              /\ history'[Len(history')].messages = messages'
              /\ LoadHistoryDoc(history_file') # Serialize(history')]_vars

C25_Witness ==
    /\ Idle
    /\ Len(history) = 1
    /\ ~history_file.present
    /\ HasAssistantOf(messages, 1)
    /\ history[1].messages = messages

\* C26: after every step that changes the history (append at stream end,
\* rename, delete of one entry, delete of all, title overwrite), with writes
\* that succeed, the list loaded from the history document equals the
\* history in memory
C26_PersistOnMutation ==
    [][history' # history =>
          LoadHistoryDoc(history_file') = Serialize(history')]_vars

C26_Witness ==
    /\ \E t \in Turns : receiver[t].done
    /\ history = <<>>
    /\ ~history_file.present

RefreshPending(t) ==
    /\ t \in Turns
    /\ \E k \in 1..Len(chan[t]) : chan[t][k] = RefreshEv

C27_RefreshProcessed ==
    /\ [][\A t \in Turns :
            /\ (TitleJobStep(t) /\ history' # history) =>
                   chan'[t] = Append(chan[t], RefreshEv)
            /\ (chan[t] # <<>> /\ Head(chan[t]) = RefreshEv
                    /\ chan'[t] = Tail(chan[t])) =>
                   history_list' = history]_vars
    /\ [](\A t \in Turns : receiver[t].done => receiver[t].listening)
    /\ \A t \in 1..TitleTurns : RefreshPending(t) ~> ~RefreshPending(t)

C27_Witness ==
    /\ Len(history) = 1
    /\ history[1].title = << "T" >>
    /\ history_list = history
    /\ title_job[1].pc = "done"
    /\ chan[1] = <<>>


\* C28: a Delete of a profile whose name the active reference holds leaves
\* the active reference empty; at every time at most one profile of the
\* list is referenced as active (has the name the reference holds)
ActiveProfiles ==
    { i \in 1..Len(profiles) : active_profile = << profiles[i].name >> }

C28_ActiveProfile ==
    /\ [][(/\ selected_profile_idx \in ActiveProfiles
            /\ \E ok \in BOOLEAN : DeleteProfile(ok))
              => active_profile' = <<>>]_vars
    /\ [](Cardinality(ActiveProfiles) <= 1)


\* C30: in every Text block of parse_markdown and in the string of
\* markdown_to_pango, a `<', `>' or `&' is part of a style tag the renderer
\* emits or of an escape, and each of the three characters is escaped as
\* many times as it occurs in the Text and Code events that are rendered
RendererTags ==
    { StartMarkup(tag) : tag \in { "Strong", "Emphasis", "Strikethrough",
                                   "BlockQuote", "Link" } }
        \cup { Tail(StartMarkup(tag)) : tag \in { "H1", "H2", "H3" } }
        \cup { << "<", "/", "b", ">" >>, << "<", "/", "s", ">" >>,
               << "<", "/", "u", ">" >>, << "<", "t", "t", ">" >>,
               << "<", "/", "t", "t", ">" >>,
               << "<", "/", "s", "p", "a", "n", ">" >>,
               << "<", "/", "b", "l", "o", "c", "k", "q", "u", "o", "t", "e",
                  ">" >> }

MarkupChars == { "<", ">", "&" }

Escapes == { EscapeChar(c) : c \in MarkupChars }

RECURSIVE WellEscaped(_)
WellEscaped(s) ==
    IF s = <<>> THEN TRUE
    ELSE IF \E x \in RendererTags \cup Escapes : IsPrefix(x, s)
    THEN LET x == CHOOSE x \in RendererTags \cup Escapes : IsPrefix(x, s)
         IN  WellEscaped(SubSeq(s, Len(x) + 1, Len(s)))
    ELSE Head(s) \notin MarkupChars /\ WellEscaped(Tail(s))

\* occurrences of the sequence x in s
Occurrences(x, s) ==
    Cardinality({ i \in 1..Len(s) : IsPrefix(x, SubSeq(s, i, Len(s))) })

\* the texts of the Text and Code events in events, joined; with_code_blocks
\* tells whether the text inside code blocks counts
RECURSIVE RenderedText(_, _, _)
RenderedText(events, in_code_block, with_code_blocks) ==
    IF events = <<>> THEN <<>>
    ELSE LET e == Head(events)
             inside == IF e.tag = "CodeBlock" THEN e.kind = "Start"
                       ELSE in_code_block
             own == IF e.kind \in { "Text", "Code" }
                       /\ (with_code_blocks \/ ~in_code_block)
                    THEN e.text ELSE <<>>
         IN  own \o RenderedText(Tail(events), inside, with_code_blocks)

RECURSIVE TextOfBlocks(_)
TextOfBlocks(bs) ==
    IF bs = <<>> THEN <<>>
    ELSE (IF Head(bs).kind = "Text" THEN Head(bs).body ELSE <<>>)
             \o TextOfBlocks(Tail(bs))

C30_MarkupEscaped ==
    /\ blocks # <<>> =>
           /\ \A i \in 1..Len(blocks[1]) :
                  blocks[1][i].kind = "Text" => WellEscaped(blocks[1][i].body)
           /\ \A c \in MarkupChars :
                  Occurrences(EscapeChar(c), TextOfBlocks(blocks[1]))
                      = Occurrences(<< c >>, RenderedText(parser, FALSE, FALSE))
    /\ pango_markup # <<>> =>
           /\ WellEscaped(pango_markup[1])
           /\ \A c \in MarkupChars :
                  Occurrences(EscapeChar(c), pango_markup[1])
                      = Occurrences(<< c >>, RenderedText(parser, FALSE, TRUE))

C30_Witness ==
    /\ blocks # <<>>
    /\ pango_markup # <<>>
    /\ \E i \in 1..Len(blocks[1]) :
           /\ blocks[1][i].kind = "Text"
           /\ Occurrences(EscapeChar("<"), blocks[1][i].body) = 2
           /\ Occurrences(<< "<", "b", ">" >>, blocks[1][i].body) = 1
    /\ Occurrences(EscapeChar("&"), pango_markup[1]) = 2


\* C31: parse_markdown returns a sequence of Text and Code blocks for every
\* event stream, and when the text stops inside a code region (nothing but
\* the region's text follows the last start of a code block) the last block
\* is a Code block that holds the code read so far
LastCodeStart ==
    CHOOSE k \in 0..Len(parser) :
        /\ k # 0 => parser[k].kind = "Start" /\ parser[k].tag = "CodeBlock"
        /\ \A j \in (k + 1)..Len(parser) :
               ~(parser[j].kind = "Start" /\ parser[j].tag = "CodeBlock")

StopsInCode ==
    /\ LastCodeStart # 0
    /\ \A j \in (LastCodeStart + 1)..Len(parser) :
           \/ parser[j].kind = "Text"
           \/ j = Len(parser) /\ parser[j] = EndEv("CodeBlock")

TagPairs ==
    { [open |-> << "<", "b", ">" >>, close |-> << "<", "/", "b", ">" >>],
      [open |-> << "<", "i", ">" >>, close |-> << "<", "/", "i", ">" >>],
      [open |-> << "<", "s", ">" >>, close |-> << "<", "/", "s", ">" >>],
      [open |-> << "<", "u", ">" >>, close |-> << "<", "/", "u", ">" >>],
      [open |-> << "<", "t", "t", ">" >>,
       close |-> << "<", "/", "t", "t", ">" >>],
      [open |-> << "<", "b", "l", "o", "c", "k", "q", "u", "o", "t", "e",
                   ">" >>,
       close |-> << "<", "/", "b", "l", "o", "c", "k", "q", "u", "o", "t",
                    "e", ">" >>] }
        \cup { [open |-> Tail(SpanOpen(HeadingSize(tag))),
                close |-> << "<", "/", "s", "p", "a", "n", ">" >>] :
                  tag \in { "H1", "H2", "H3" } }

RECURSIVE Nested(_, _)
Nested(s, stack) ==
    IF s = <<>> THEN stack = <<>>
    ELSE IF \E p \in TagPairs : IsPrefix(p.open, s)
    THEN LET p == CHOOSE p \in TagPairs : IsPrefix(p.open, s) IN
             Nested(SubSeq(s, Len(p.open) + 1, Len(s)),
                    Append(stack, p.close))
    ELSE IF \E p \in TagPairs : IsPrefix(p.close, s)
    THEN LET p == CHOOSE p \in TagPairs : IsPrefix(p.close, s) IN
             /\ stack # <<>>
             /\ stack[Len(stack)] = p.close
             /\ Nested(SubSeq(s, Len(p.close) + 1, Len(s)),
                       SubSeq(stack, 1, Len(stack) - 1))
    ELSE Nested(Tail(s), stack)

C32_WellFormedMarkup ==
    /\ blocks # <<>> =>
           \A i \in 1..Len(blocks[1]) :
               blocks[1][i].kind = "Text" => Nested(blocks[1][i].body, <<>>)
    /\ pango_markup # <<>> => Nested(pango_markup[1], <<>>)


\* C33: for an event stream without a code block, parse_markdown returns no
\* block when markdown_to_pango returns the empty string, and else one Text
\* block whose markup is the string of markdown_to_pango
NoCodeBlock == \A k \in 1..Len(parser) : parser[k].tag # "CodeBlock"

C33_RenderersAgree ==
    (blocks # <<>> /\ pango_markup # <<>> /\ NoCodeBlock) =>
        /\ Len(blocks[1]) <= 1
        /\ Len(blocks[1]) = 0 => pango_markup[1] = <<>>
        /\ Len(blocks[1]) = 1 =>
               blocks[1][1] = TextBlock(pango_markup[1])

C33_Witness ==
    /\ blocks # <<>>
    /\ pango_markup # <<>>
    /\ NoCodeBlock
    /\ \E k \in 1..Len(parser) : parser[k].kind = "Code"
    /\ \E k \in 1..Len(parser) : parser[k].tag = "Strong"
    /\ blocks[1] = << TextBlock(pango_markup[1]) >>


\* C34 (as stated): the Code blocks are the code regions of the stream, in
\* order; each has the language of its Start event and, as code, the
\* concatenation of the region's text as it is; the text pending before a
\* region is in one Text block right before the region's Code block, and no
\* Text block is empty
CodeStarts ==
    { k \in 1..Len(parser) :
        parser[k].kind = "Start" /\ parser[k].tag = "CodeBlock" }

CodeEnds ==
    { k \in 1..Len(parser) :
        parser[k].kind = "End" /\ parser[k].tag = "CodeBlock" }

\* the n-th member of a set of numbers
Nth(set, n) == CHOOSE k \in set : Cardinality({ j \in set : j < k }) = n - 1

RegionText(n) ==
    RenderedText(SubSeq(parser, Nth(CodeStarts, n) + 1,
                        Nth(CodeEnds, n) - 1), FALSE, TRUE)

PendingBefore(n) ==
    markdown_to_pango(
        SubSeq(parser, IF n = 1 THEN 1 ELSE Nth(CodeEnds, n - 1) + 1,
               Nth(CodeStarts, n) - 1))

CodeRegionsRendered(trimmed) ==
    blocks # <<>> =>
        LET b == blocks[1]
            codes == { i \in 1..Len(b) : b[i].kind = "Code" }
        IN  /\ Cardinality(codes) = Cardinality(CodeStarts)
            /\ \A i \in 1..Len(b) : b[i].kind = "Text" => b[i].body # <<>>
            /\ \A n \in 1..Cardinality(CodeStarts) :
                   LET i == Nth(codes, n) IN
                       /\ b[i].lang = parser[Nth(CodeStarts, n)].text
                       /\ b[i].body = IF trimmed THEN Trim(RegionText(n))
                                      ELSE RegionText(n)
                       /\ PendingBefore(n) # <<>> =>
                              i > 1 /\ b[i - 1] = TextBlock(PendingBefore(n))
                       /\ PendingBefore(n) = <<>> =>
                              i = 1 \/ b[i - 1].kind = "Code"

C34_CodeRegions_AsStated == CodeRegionsRendered(FALSE)

\* C34 (amended): as above, with the code of a block being the concatenation
\* of the region's text without its leading and trailing whitespace
C34_CodeRegions == CodeRegionsRendered(TRUE)

C34_Witness ==
    /\ blocks # <<>>
    /\ Cardinality(CodeStarts) = 1
    /\ Len(blocks[1]) = 2
    /\ blocks[1][1].kind = "Text"
    /\ blocks[1][2] = CodeBlock(<< "r", "s" >>, << "a" >>)
    /\ RegionText(1) = << " ", "a", "\n" >>


\* C35: a step that handles the Done or Error event of a turn while the
\* request of a later turn is in flight leaves the handle slot and the
\* control as they are
StaleEventStep(t) ==
    /\ receiver[t].listening
    /\ chan[t] # <<>>
    /\ Head(chan[t]).type \in { "Done", "Error" }
    /\ chan'[t] = Tail(chan[t])
    /\ \E u \in Turns : u > t /\ InFlight(u)

C35_StaleEventKeepsLaterTurn ==
    [][\A t \in Turns :
          StaleEventStep(t) =>
              /\ current_task' = current_task
              /\ send_btn' = send_btn]_vars


\* C36: after every accepted send the session is eventually Idle again,
\* whatever the agent list and the selected agent index are at that time
C36_SendEndsIdle ==
    \A t \in 1..AgentTurns :
        (Len(task) = t /\ send_btn = "Stop") ~> Idle


\* C37: the history entry created by the Done handler of a turn ends with
\* the User message of that turn followed by the Assistant message of that
\* turn
C37_EntryRecordsItsTurn ==
    \A t \in Turns :
        \A i \in 1..Len(history) :
            history[i].id = receiver[t].history_id =>
                LET msgs == history[i].messages
                    n == Len(msgs)
                IN  /\ n >= 2
                    /\ msgs[n - 1].role = "User" /\ msgs[n - 1].turn = t
                    /\ msgs[n].role = "Assistant" /\ msgs[n].turn = t


\* C38: when the active reference is set, the profile list holds a profile
\* with the name the reference holds
C38_ActiveProfileExists ==
    active_profile # <<>> =>
        \E i \in 1..Len(profiles) : profiles[i].name = active_profile[1]


\* C39: a title job never changes a title that a rename has set
C39_RenameSurvivesTitleJob ==
    [][\A t \in Turns :
          TitleJobStep(t) =>
              \A i \in 1..Len(history) :
                  history[i].title = << "r" >> =>
                      /\ i <= Len(history')
                      /\ history'[i].title = << "r" >>]_vars

\* C40: the step of a title job whose entry is not in the history leaves
\* the history and the history document as they are
C40_NoResurrection ==
    [][\A t \in Turns :
          (TitleJobStep(t)
              /\ FindEntry(history, title_job[t].history_id) = 0) =>
              UNCHANGED << history, history_file >>]_vars

C40_Witness ==
    \E t \in Turns :
        /\ title_job[t].pc = "done"
        /\ title_job[t].res = << "T" >>
        /\ ~title_job[t].found
        /\ history = <<>>
        /\ LoadHistoryDoc(history_file) = <<>>

====
